---- MODULE Spec2Model ----
(***************************************************************************)
(* Model of the wallet's native signing authority: WalletModule (bridge),  *)
(* TransactionSigner (validation, nonce check-and-commit, signing) and     *)
(* WalletKeyManager (key lifecycle in the Android Keystore).               *)
(*                                                                         *)
(* Strings are sequences of one-character strings.  The persisted         *)
(* preference file is a sequence that is empty while last_used_nonce has   *)
(* never been written.  Each thread executes one bridge call at a time;    *)
(* signTransaction is split where it touches shared state (monitor entry,  *)
(* preference read, preference write, keystore lookup, signing).           *)
(***************************************************************************)
EXTENDS Integers, Sequences, FiniteSets, TLC

\* ------------------------------------------------------------------ bounds
NumThreads == 2
MaxNonce == 1
MaxKeyGen == 2
MaxShort == 3
MaxGapNonce == 5
MaxCommits == 2
MaxCanonicalNonce == 10
LongBits == 6
MaxAppNonce == 2
MaxSubmissions == 3

\* ------------------------------------------------------- program constants
MAX_AMOUNT_LENGTH == 50
MAX_DECIMAL_PLACES == 18
DEFAULT_NONCE == -1
DOUBLE_MAX_EXP10 == 308
DOUBLE_MIN_EXP10 == -324

Threads == 1..NumThreads
NoThread == 0

\* ------------------------------------------------------------ string tools
Digit == {"0", "1", "2", "3", "4", "5", "6", "7", "8", "9"}

DigitVal(c) ==
  CASE c = "0" -> 0 [] c = "1" -> 1 [] c = "2" -> 2 [] c = "3" -> 3
    [] c = "4" -> 4 [] c = "5" -> 5 [] c = "6" -> 6 [] c = "7" -> 7
    [] c = "8" -> 8 [] c = "9" -> 9

DigitChar(d) == <<"0", "1", "2", "3", "4", "5", "6", "7", "8", "9">>[d + 1]

MinOf(S) == CHOOSE x \in S : \A y \in S : x <= y
MaxOf(S) == CHOOSE x \in S : \A y \in S : x >= y

AllDigits(s) == \A i \in 1..Len(s) : s[i] \in Digit

\* String.indexOf(ch): zero-based index of the first occurrence, or -1.
IndexOf(s, c) ==
  LET hits == {i \in 1..Len(s) : s[i] = c}
  IN IF hits = {} THEN -1 ELSE MinOf(hits) - 1

\* n copies of the character c.
Repeat(c, n) == [i \in 1..n |-> c]

\* The null reference ReadableMap.getString returns for an absent key.
NULL == <<"<null>">>

\* ------------------------------------------ String.toDoubleOrNull (Kotlin)
\* The value classes a Double can fall in, as far as validateAmount tells
\* them apart; "null" is the null result for text outside the grammar.
\* Grammar of java.lang.Double.valueOf: optional surrounding whitespace,
\* optional sign, then NaN, Infinity or a decimal floating literal with an
\* optional exponent and an optional f/F/d/D suffix (hexadecimal literals
\* need the character x, which no modelled input contains).
Whitespace == {" "}

Trim(s) ==
  LET keep == {i \in 1..Len(s) : s[i] \notin Whitespace}
  IN IF keep = {} THEN <<>> ELSE SubSeq(s, MinOf(keep), MaxOf(keep))

NaNLiteral == <<"N", "a", "N">>
InfinityLiteral == <<"I", "n", "f", "i", "n", "i", "t", "y">>

RECURSIVE DigitsToNat(_)
DigitsToNat(s) ==
  IF s = <<>> THEN 0
  ELSE 10 * DigitsToNat(SubSeq(s, 1, Len(s) - 1)) + DigitVal(s[Len(s)])

\* Exponent text after e/E: optional sign and at least one digit.  Values
\* beyond four digits are far outside the double range either way.
ExponentOk(x) ==
  LET d == IF x # <<>> /\ x[1] \in {"+", "-"} THEN Tail(x) ELSE x
  IN d # <<>> /\ AllDigits(d)

ExponentVal(x) ==
  LET neg == x # <<>> /\ x[1] = "-"
      d == IF x # <<>> /\ x[1] \in {"+", "-"} THEN Tail(x) ELSE x
      v == IF Len(d) > 4 THEN 10000 ELSE DigitsToNat(d)
  IN IF neg THEN 0 - v ELSE v

\* Mantissa: Digits [. [Digits]] or . Digits.
MantissaOk(m) ==
  LET dot == IndexOf(m, ".")
      ip == IF dot < 0 THEN m ELSE SubSeq(m, 1, dot)
      fp == IF dot < 0 THEN <<>> ELSE SubSeq(m, dot + 2, Len(m))
  IN AllDigits(ip) /\ AllDigits(fp) /\ Len(ip) + Len(fp) > 0

\* Decimal exponent of the leading non-zero digit of the mantissa, or
\* "zero" (as a record) when every digit is 0.
MantissaScale(m) ==
  LET dot == IndexOf(m, ".")
      ip == IF dot < 0 THEN m ELSE SubSeq(m, 1, dot)
      fp == IF dot < 0 THEN <<>> ELSE SubSeq(m, dot + 2, Len(m))
      inz == {i \in 1..Len(ip) : ip[i] # "0"}
      fnz == {i \in 1..Len(fp) : fp[i] # "0"}
  IN IF inz # {} THEN [zero |-> FALSE, exp10 |-> Len(ip) - MinOf(inz)]
     ELSE IF fnz # {} THEN [zero |-> FALSE, exp10 |-> 0 - MinOf(fnz)]
     ELSE [zero |-> TRUE, exp10 |-> 0]

\* Rounding to the nearest double: magnitudes above the double range become
\* infinite, magnitudes below it become zero (exact outside the two boundary
\* decades 1e308 and 1e-324, which no modelled input lies in).
DecimalClass(neg, m, x) ==
  LET sc == MantissaScale(m)
      e10 == sc.exp10 + (IF x = <<>> THEN 0 ELSE ExponentVal(x))
  IN IF sc.zero \/ e10 < DOUBLE_MIN_EXP10 THEN "Zero"
     ELSE IF e10 > DOUBLE_MAX_EXP10 THEN (IF neg THEN "NegInf" ELSE "PosInf")
     ELSE IF neg THEN "Neg" ELSE "Pos"

toDoubleOrNull(s) ==
  LET t == Trim(s)
      neg == t # <<>> /\ t[1] = "-"
      u == IF t # <<>> /\ t[1] \in {"+", "-"} THEN Tail(t) ELSE t
      v == IF u # <<>> /\ u[Len(u)] \in {"f", "F", "d", "D"}
           THEN SubSeq(u, 1, Len(u) - 1) ELSE u
      es == {i \in 1..Len(v) : v[i] \in {"e", "E"}}
      m == IF es = {} THEN v ELSE SubSeq(v, 1, MinOf(es) - 1)
      x == IF es = {} THEN <<>> ELSE SubSeq(v, MinOf(es) + 1, Len(v))
  IN IF u = NaNLiteral THEN "NaN"
     ELSE IF u = InfinityLiteral THEN (IF neg THEN "NegInf" ELSE "PosInf")
     ELSE IF MantissaOk(m) /\ (es = {} \/ ExponentOk(x))
          THEN DecimalClass(neg, m, x)
     ELSE "null"

\* amountValue <= 0 on doubles: false for NaN, as every comparison with NaN.
LessOrEqualZero(d) == d \in {"Zero", "Neg", "NegInf"}

\* TransactionSigner.validateAmount: "ok" or the message of the exception.
validateAmount(amount) ==
  IF amount = <<>> THEN "Amount cannot be empty"
  ELSE IF Len(amount) > MAX_AMOUNT_LENGTH THEN "Amount exceeds maximum length"
  ELSE IF toDoubleOrNull(amount) = "null" THEN "Invalid amount format"
  ELSE IF LessOrEqualZero(toDoubleOrNull(amount)) THEN "Amount must be positive"
  ELSE LET decimalIndex == IndexOf(amount, ".")
           decimalPlaces == Len(amount) - decimalIndex - 1
       IN IF decimalIndex >= 0 /\ decimalPlaces > MAX_DECIMAL_PLACES
          THEN "Amount cannot have more than 18 decimal places"
          ELSE "ok"

\* ------------------------------------------------------- canonical payload
RECURSIVE NatToString(_)
NatToString(n) ==
  IF n < 10 THEN <<DigitChar(n)>>
  ELSE NatToString(n \div 10) \o <<DigitChar(n % 10)>>

\* Fault: only the last digit of the nonce is written.
LongToStringLastDigit(n) == <<DigitChar(n % 10)>>

\* Long.toString in base 10.
LongToString(n) == IF n < 0 THEN <<"-">> \o NatToString(0 - n) ELSE NatToString(n)

\* Fault: the fields are concatenated without the separator.
createCanonicalTransactionDataWithoutSeparators(amount, currency, nonce) ==
  amount \o currency \o LongToString(nonce)

\* Fault: the nonce is left out of the signed data.
createCanonicalTransactionDataWithoutNonce(amount, currency, nonce) ==
  amount \o <<"|">> \o currency

createCanonicalTransactionData(amount, currency, nonce) ==
  amount \o <<"|">> \o currency \o <<"|">> \o LongToString(nonce)

\* ------------------------------------------------------------------ state
VARIABLES
  prefs,             \* wallet_prefs: <<>> until last_used_nonce is written, then <<n>>
  wallet_prefs,      \* the preference file on disk, as a restarted process loads it
  nonceLock,         \* per TransactionSigner: the thread inside synchronized(nonceLock)
  transactionSigner, \* the TransactionSigner instance each caller goes through
  keyAlias,          \* keystore entry under KEY_ALIAS: 0 = none, k = k-th generated key
  keysGenerated,     \* number of key pairs generated so far
  invalidated,       \* the platform has permanently invalidated the current key
  authenticated,     \* the user authenticated within the key's validity window
  keyStoreError,     \* the platform key store raises on every query (it cannot
                     \* be loaded, or its service is down)
  pc,                \* per thread: position in the bridge call it executes
  tx,                \* per thread: amount, currency, nonce of the running signTransaction
  lastNonce,         \* per thread: local lastNonce of validateAndSaveNonce
  privateKeyEntry,   \* per thread: key handle returned by getPrivateKeyEntry
  committed,         \* per thread: the running call has written last_used_nonce
  keyUsed,           \* per thread: the running call has reached the key manager
  result,            \* per thread: what the finished call resolved or rejected with
  accepted,          \* history: the nonces written to last_used_nonce, in order
  signatures,        \* history: the signatures produced so far (copy counts the
                     \* signatures over the same nonce)
  service,           \* per caller: the walletService call it is in (JavaScript side)
  processedNonces,   \* mockBackend: the module-level Set of nonces
  pending,           \* mockBackend: the submitTransaction calls waiting for their timer
  responses,         \* mockBackend: the response each submission resolved with
  acceptedNonces,    \* history: the nonces of the submissions accepted since the
                     \* last clearProcessedNonces, in order
  app                \* WalletApp: its React state and the handler that is running

vars == <<prefs, wallet_prefs, nonceLock, transactionSigner, keyAlias, keysGenerated,
          invalidated, authenticated, keyStoreError, pc, tx, lastNonce,
          privateKeyEntry, committed, keyUsed, result, accepted, signatures,
          service, processedNonces, pending, responses, acceptedNonces, app>>

keyVars == <<keyAlias, keysGenerated, invalidated, authenticated, keyStoreError>>
callVars == <<tx, lastNonce, privateKeyEntry, committed, keyUsed>>
histVars == <<accepted, signatures>>
backendVars == <<processedNonces, pending, responses, acceptedNonces>>
\* Everything outside the native module and the bridge to it.
appVars == <<backendVars, app>>

Signers == {1, 2}

\* SharedPreferences.getLong(LAST_NONCE_KEY, -1L)
getLong(p) == IF p = <<>> THEN DEFAULT_NONCE ELSE p[1]

NoTx == [amount |-> <<>>, currency |-> <<>>, nonce |-> 0]
NoResult == [kind |-> "none", a |-> 0, b |-> 0]
Res(k, x, y) == [kind |-> k, a |-> x, b |-> y]

\* The promise code the bridge rejects with for each kind of failure.
CodeOf(kind) ==
  CASE kind \in {"invalid_input"} -> "INVALID_INPUT"
    [] kind \in {"missing_nonce"} -> "UNKNOWN_ERROR"
    \* errors thrown in JavaScript carry no code: error.code || 'UNKNOWN_ERROR'
    [] kind \in {"js_invalid_transaction", "js_invalid_amount",
                 "js_too_many_decimals", "auth_cancelled",
                 "prompt_failed"} -> "UNKNOWN_ERROR"
    [] kind \in {"invalid_amount", "nonce_too_low", "key_not_found",
                 "auth_required", "key_invalidated", "sign_failed",
                 "key_gen_failed", "key_access_failed",
                 "public_key_failed"} -> "WALLET_ERROR"
    [] OTHER -> "RESOLVED"

\* walletService.createWalletError: the Error a rejected native promise is
\* turned into, with the message and the code of the rejection.
createWalletError(r) == [message |-> <<r.kind, r.a, r.b>>, code |-> CodeOf(r.kind)]

\* --------------------------------------------------------------- inputs
Amount100_50 == <<"1", "0", "0", ".", "5", "0">>
AmountZero == <<"0">>
USD == <<"U", "S", "D">>

\* A JavaScript number as nonce: absent, NaN, or a multiple of one half.
Num(h) == [kind |-> "num", halves |-> h]
NonceMissing == [kind |-> "missing", halves |-> 0]
NonceNaN == [kind |-> "nan", halves |-> 0]

\* The ReadableMap arguments callers pass: well-formed transactions with every
\* nonce up to MaxNonce (and one fractional nonce), and transactions with one
\* field absent or malformed.
Arg(a, c, n) == [amount |-> a, currency |-> c, nonce |-> n]
TransactionArgs ==
  {Arg(Amount100_50, USD, Num(2 * k)) : k \in 0..MaxNonce}
    \cup {Arg(Amount100_50, USD, Num(1))}
    \cup {Arg(a, USD, Num(0)) : a \in {NULL, <<>>, AmountZero}}
    \cup {Arg(Amount100_50, c, Num(0)) : c \in {NULL, <<>>}}
    \cup {Arg(Amount100_50, USD, n) : n \in {NonceMissing, NonceNaN, Num(-1), Num(-2)}}

\* Long.MAX_VALUE and Long.MIN_VALUE of a Long of LongBits bits, and the
\* significand of a Double, which is shorter than a Long (53 bits against 64).
LONG_MAX == 2^(LongBits - 1) - 1
LONG_MIN == 0 - 2^(LongBits - 1)
DoubleSignificandBits == LongBits - 2

\* Double.toLong: truncation toward zero; a value outside the range of Long
\* becomes Long.MAX_VALUE or Long.MIN_VALUE.
toLong(halves) ==
  LET truncated == IF halves >= 0 THEN halves \div 2 ELSE 0 - ((0 - halves) \div 2)
  IN IF truncated > LONG_MAX THEN LONG_MAX
     ELSE IF truncated < LONG_MIN THEN LONG_MIN
     ELSE truncated

\* Long.plus: two's complement addition.
plus(a, b) == ((a + b - LONG_MIN) % 2^LongBits) + LONG_MIN

\* Long.toDouble: the nearest value with DoubleSignificandBits significant
\* bits, ties to the even significand.
toDouble(n) ==
  LET mag == IF n < 0 THEN 0 - n ELSE n
      e == CHOOSE k \in 0..LongBits :
             /\ mag < 2^(DoubleSignificandBits + k)
             /\ k = 0 \/ mag >= 2^(DoubleSignificandBits + k - 1)
      q == mag \div 2^e
      r == mag % 2^e
      up == 2 * r > 2^e \/ (2 * r = 2^e /\ q % 2 = 1)
      rounded == (IF up THEN q + 1 ELSE q) * 2^e
  IN IF n < 0 THEN 0 - rounded ELSE rounded

\* The walletService call of a caller: where it is (none, prompt, invoke,
\* native, settled), which method, its argument, what simplePrompt returned
\* to it, and what it settled with.
NoService == [pc |-> "none", op |-> "none", request |-> Arg(NULL, NULL, NonceMissing),
              prompt |-> "none", outcome |-> NoResult]

\* WalletApp as it is constructed: the useState initial values, and the
\* effect that runs checkKeyExists scheduled.  status and alert hold the last
\* setStatus and Alert.alert text, submission the index of the backend call
\* the handler awaits.
InitialApp ==
  [publicKey |-> [form |-> "empty", key |-> 0], keyExists |-> FALSE, loading |-> FALSE,
   amount |-> Amount100_50, currency |-> USD, nonce |-> Num(2),
   status |-> "", alert |-> "", handler |-> "checkKeyExists", step |-> "start",
   submission |-> 0]

\* ------------------------------------------------------------------ init
Init ==
  /\ prefs = <<>>
  /\ wallet_prefs = <<>>
  /\ nonceLock = [s \in Signers |-> NoThread]
  /\ transactionSigner = [t \in Threads |-> 1]
  /\ keyAlias = 0
  /\ keysGenerated = 0
  /\ invalidated = FALSE
  /\ authenticated \in BOOLEAN
  /\ keyStoreError = FALSE
  /\ pc = [t \in Threads |-> "idle"]
  /\ tx = [t \in Threads |-> NoTx]
  /\ lastNonce = [t \in Threads |-> DEFAULT_NONCE]
  /\ privateKeyEntry = [t \in Threads |-> 0]
  /\ committed = [t \in Threads |-> FALSE]
  /\ keyUsed = [t \in Threads |-> FALSE]
  /\ result = [t \in Threads |-> NoResult]
  /\ accepted = <<>>
  /\ signatures = {}
  /\ service = [t \in Threads |-> NoService]
  /\ processedNonces = {}
  /\ pending = {}
  /\ responses = <<>>
  /\ acceptedNonces = <<>>
  /\ app = InitialApp

\* The thread is between calls: it has made none yet or its last one is settled.
Idle(t) == pc[t] \in {"idle", "done"}

\* The bridge delivers the call a walletService method has made, if caller t
\* is inside one; a caller of the native module alone has none.
Delivered(t) == [service EXCEPT ![t].pc = IF @ = "invoke" THEN "native" ELSE @]

\* A call ends: the promise is settled with r.
Finish(t, r) ==
  /\ pc' = [pc EXCEPT ![t] = "done"]
  /\ result' = [result EXCEPT ![t] = r]

\* ----------------------------------------- WalletModule.signTransaction
\* Fault: the bridge without the test nonceValue < 0.
BridgeCheckWithoutSign(amount, currency, nonceArg) ==
  IF amount = NULL THEN "invalid_input"
  ELSE IF currency = NULL THEN "invalid_input"
  ELSE IF nonceArg.kind = "missing" THEN "missing_nonce"
  ELSE IF nonceArg.kind = "nan" THEN "invalid_input"
  ELSE IF amount = <<>> THEN "invalid_input"
  ELSE IF currency = <<>> THEN "invalid_input"
  ELSE "ok"

\* The checks of the bridge method, in order; "ok" or the kind of rejection.
BridgeCheck(amount, currency, nonceArg) ==
  IF amount = NULL THEN "invalid_input"
  ELSE IF currency = NULL THEN "invalid_input"
  ELSE IF nonceArg.kind = "missing" THEN "missing_nonce"
  ELSE IF nonceArg.kind = "nan" \/ nonceArg.halves < 0 THEN "invalid_input"
  ELSE IF amount = <<>> THEN "invalid_input"
  ELSE IF currency = <<>> THEN "invalid_input"
  ELSE "ok"

\* The locals of a call that has not run validateAndSaveNonce or touched the key.
FreshCall(t, newTx) ==
  /\ tx' = [tx EXCEPT ![t] = newTx]
  /\ lastNonce' = [lastNonce EXCEPT ![t] = DEFAULT_NONCE]
  /\ privateKeyEntry' = [privateKeyEntry EXCEPT ![t] = 0]
  /\ committed' = [committed EXCEPT ![t] = FALSE]
  /\ keyUsed' = [keyUsed EXCEPT ![t] = FALSE]

\* Bridge checks, then TransactionSigner.signTransaction up to validateAmount.
SignTransaction(t, amount, currency, nonceArg) ==
  /\ Idle(t)
  /\ LET b == BridgeCheck(amount, currency, nonceArg)
     IN IF b # "ok"
        THEN /\ Finish(t, Res(b, 0, 0))
             /\ FreshCall(t, NoTx)
        ELSE IF validateAmount(amount) # "ok"
        THEN /\ Finish(t, Res("invalid_amount", 0, 0))
             /\ FreshCall(t, NoTx)
        ELSE /\ pc' = [pc EXCEPT ![t] = "lock"]
             /\ result' = [result EXCEPT ![t] = NoResult]
             /\ FreshCall(t, [amount |-> amount, currency |-> currency,
                              nonce |-> toLong(nonceArg.halves)])
  /\ UNCHANGED <<prefs, wallet_prefs, nonceLock, transactionSigner, keyVars, histVars>>
  /\ service' = Delivered(t)
  /\ UNCHANGED appVars

\* Fault: signTransaction without the synchronized block.
NonceLockFreeUnsynchronized(s) == TRUE

\* synchronized(nonceLock): the monitor of this caller's signer is free.
NonceLockFree(s) == nonceLock[s] = NoThread

\* Monitor entry and the first line of validateAndSaveNonce:
\* val lastNonce = prefs.getLong(LAST_NONCE_KEY, -1L)
EnterNonceLock(t) ==
  /\ pc[t] = "lock"
  /\ NonceLockFree(transactionSigner[t])
  /\ nonceLock' = [nonceLock EXCEPT ![transactionSigner[t]] = t]
  /\ lastNonce' = [lastNonce EXCEPT ![t] = getLong(prefs)]
  /\ pc' = [pc EXCEPT ![t] = "check"]
  /\ UNCHANGED <<prefs, wallet_prefs, transactionSigner, keyVars, tx, privateKeyEntry,
                 committed, keyUsed, result, histVars>>
  /\ UNCHANGED <<service, appVars>>

\* Fault: the comparison written as nonce < lastNonce.
NonceRejectedStrict(nonce, last) == nonce < last

\* Fault: the comparison left out.
NonceRejectedNever(nonce, last) == FALSE

\* Fault: only the successor of the last nonce is let through.
NonceRejectedUnlessNext(nonce, last) == nonce # last + 1

\* if (nonce <= lastNonce) throw
NonceRejected(nonce, last) == nonce <= last

\* Fault: the exception of the nonce check is swallowed and signing goes on.
AfterNonceCheckContinues(rejected) == "key"

\* Where signTransaction continues after the synchronized block.
AfterNonceCheck(rejected) == IF rejected THEN "done" ELSE "key"

\* Fault: the edit is never committed.
putLongDropped(p, value) == p

\* prefs.edit().putLong(LAST_NONCE_KEY, nonce).commit()
putLong(p, value) == <<value>>

\* Fault: the edit is handed to apply(), which writes the file later
\* (saveLastNonce of the earlier variant).
apply(file, edited) == file

\* Editor.commit(): the edited preferences are written to the file before
\* the call returns.
commit(file, edited) == edited

\* Fault: the message of the exception names the rejected nonce only.
NonceTooLowErrorWithoutLast(nonce, last) == Res("nonce_too_low", nonce, DEFAULT_NONCE)

\* WalletException("Invalid nonce: $nonce. Must be greater than last used
\* nonce: $lastNonce")
NonceTooLowError(nonce, last) == Res("nonce_too_low", nonce, last)

\* Leaving the monitor, normally or by the exception.
ExitNonceLock(t) ==
  [nonceLock EXCEPT ![transactionSigner[t]] =
     IF nonceLock[transactionSigner[t]] = t THEN NoThread ELSE @]

\* validateAndSaveNonce, rest: compare, then putLong(...).commit().
ValidateAndSaveNonce(t) ==
  /\ pc[t] = "check"
  /\ LET rejected == NonceRejected(tx[t].nonce, lastNonce[t])
     IN /\ pc' = [pc EXCEPT ![t] = AfterNonceCheck(rejected)]
        /\ IF rejected
           THEN /\ result' = [result EXCEPT
                                ![t] = NonceTooLowError(tx[t].nonce, lastNonce[t])]
                /\ UNCHANGED <<prefs, wallet_prefs, committed, accepted>>
           ELSE /\ prefs' = putLong(prefs, tx[t].nonce)
                /\ wallet_prefs' = commit(wallet_prefs, putLong(prefs, tx[t].nonce))
                /\ committed' = [committed EXCEPT ![t] = TRUE]
                /\ accepted' = Append(accepted, tx[t].nonce)
                /\ UNCHANGED result
  /\ nonceLock' = ExitNonceLock(t)
  /\ UNCHANGED <<transactionSigner, keyVars, tx, lastNonce, privateKeyEntry,
                 keyUsed, signatures>>
  /\ UNCHANGED <<service, appVars>>

\* Fault: a new authentication makes the invalidated key usable again.
KeyInvalidatedUntilAuthenticated == invalidated /\ ~authenticated

\* The platform refuses the key stored under the alias for good
\* (KeyPermanentlyInvalidatedException, UnrecoverableKeyException).
KeyPermanentlyInvalidated == invalidated

\* ---------------------------------- WalletKeyManager.getPrivateKeyEntry
\* The lazy keyStore or containsAlias/getEntry raise when the key store is
\* out of order: "Failed to initialize KeyStore" / "Failed to access private key".
\* keyStore.getEntry may already refuse an invalidated key
\* (UnrecoverableKeyException) or hand out the entry and leave the refusal
\* to Signature.initSign; both happen, depending on the platform version.
GetPrivateKeyEntry(t) ==
  /\ pc[t] = "key"
  /\ keyUsed' = [keyUsed EXCEPT ![t] = TRUE]
  /\ \/ /\ keyStoreError
        /\ Finish(t, Res("key_access_failed", 0, 0))
        /\ UNCHANGED privateKeyEntry
     \/ /\ ~keyStoreError
        /\ keyAlias = 0
        /\ Finish(t, Res("key_not_found", 0, 0))
        /\ UNCHANGED privateKeyEntry
     \/ /\ ~keyStoreError
        /\ keyAlias # 0
        /\ KeyPermanentlyInvalidated
        /\ Finish(t, Res("key_invalidated", 0, 0))
        /\ UNCHANGED privateKeyEntry
     \/ /\ ~keyStoreError
        /\ keyAlias # 0
        /\ privateKeyEntry' = [privateKeyEntry EXCEPT ![t] = keyAlias]
        /\ pc' = [pc EXCEPT ![t] = "sign"]
        /\ UNCHANGED result
  /\ UNCHANGED <<prefs, wallet_prefs, nonceLock, transactionSigner, keyVars, tx, lastNonce,
                 committed, histVars>>
  /\ UNCHANGED <<service, appVars>>

\* Signature.initSign / update / sign on the canonical data.  The handle
\* names the alias: when generateKeyPair deleted or replaced the entry since
\* getPrivateKeyEntry, the platform either fails the operation (caught as
\* "Failed to sign transaction") or resolves the alias to the key now stored.
Sign(t) ==
  /\ pc[t] = "sign"
  /\ \/ /\ keyAlias # privateKeyEntry[t]
        /\ Finish(t, Res("sign_failed", 0, 0))
        /\ UNCHANGED signatures
     \/ /\ keyAlias # 0
        /\ KeyPermanentlyInvalidated
        /\ Finish(t, Res("key_invalidated", 0, 0))
        /\ UNCHANGED signatures
     \/ /\ keyAlias # 0
        /\ ~KeyPermanentlyInvalidated
        /\ ~authenticated
        /\ Finish(t, Res("auth_required", 0, 0))
        /\ UNCHANGED signatures
     \/ /\ keyAlias # 0
        /\ ~KeyPermanentlyInvalidated
        /\ authenticated
        /\ signatures' = signatures \cup
             {[key |-> keyAlias, nonce |-> tx[t].nonce,
               copy |-> Cardinality({s \in signatures : s.nonce = tx[t].nonce}) + 1,
               data |-> createCanonicalTransactionData(tx[t].amount, tx[t].currency,
                                                       tx[t].nonce)]}
        /\ Finish(t, Res("signed", keyAlias, tx[t].nonce))
  /\ UNCHANGED <<prefs, wallet_prefs, nonceLock, transactionSigner, keyVars, callVars, accepted>>
  /\ UNCHANGED <<service, appVars>>

\* ------------------------------------- WalletKeyManager.generateKeyPair
\* if (keyStore.containsAlias(KEY_ALIAS)) keyStore.deleteEntry(KEY_ALIAS);
\* a key store out of order raises before anything is deleted.
GenerateKeyPair(t) ==
  /\ Idle(t)
  /\ keysGenerated < MaxKeyGen
  /\ FreshCall(t, NoTx)
  /\ IF keyStoreError
     THEN /\ Finish(t, Res("key_gen_failed", 0, 0))
          /\ UNCHANGED <<keyAlias, invalidated>>
     ELSE /\ pc' = [pc EXCEPT ![t] = "generate"]
          /\ result' = [result EXCEPT ![t] = NoResult]
          /\ keyAlias' = 0
          /\ invalidated' = FALSE
  /\ UNCHANGED <<prefs, wallet_prefs, nonceLock, transactionSigner, keysGenerated, authenticated,
                 keyStoreError, histVars>>
  /\ service' = Delivered(t)
  /\ UNCHANGED appVars

\* Fault: the private key of the entry is encoded and handed out.
encodedPrivateKey(k) == [key |-> k, part |-> "private"]

\* Base64 of publicKey.encoded: the public half of key k.
encodedPublicKey(k) == [key |-> k, part |-> "public"]

\* Fault: the generator leaves an entry that exists under the alias in place.
setEntryKeepsExisting(old, new) == IF old # 0 THEN old ELSE new

\* The generator stores the new key pair under KEY_ALIAS, replacing an entry
\* another generateKeyPair call has stored there since the delete.
setEntry(old, new) == new

\* keyPairGenerator.generateKeyPair(): a new key under the alias, or the
\* platform refuses (no secure lock screen, keystore unavailable).
CreateKey(t) ==
  /\ pc[t] = "generate"
  /\ \/ /\ keysGenerated < MaxKeyGen
        /\ keysGenerated' = keysGenerated + 1
        /\ keyAlias' = setEntry(keyAlias, keysGenerated + 1)
        /\ invalidated' = FALSE
        /\ Finish(t, Res("generated", encodedPublicKey(keysGenerated + 1), 0))
     \/ /\ Finish(t, Res("key_gen_failed", 0, 0))
        /\ UNCHANGED <<keyAlias, keysGenerated, invalidated>>
  /\ UNCHANGED <<prefs, wallet_prefs, nonceLock, transactionSigner, authenticated,
                 keyStoreError, callVars, histVars>>
  /\ UNCHANGED <<service, appVars>>

\* ---------------------------------------------------- read-only bridge calls
\* Fault: the containsAlias test of getPublicKey left out.
containsAliasAlways == TRUE

\* keyStore.containsAlias(KEY_ALIAS)
containsAlias == keyAlias # 0

\* WalletKeyManager.getPublicKey: containsAlias, then the same
\* keyStore.getEntry as getPrivateKeyEntry, which may refuse an invalidated
\* key; here every exception but the key-not-found one ends as
\* "Failed to get public key".
GetPublicKey(t) ==
  /\ Idle(t)
  /\ \/ /\ keyStoreError
        /\ Finish(t, Res("public_key_failed", 0, 0))
     \/ /\ ~keyStoreError
        /\ ~containsAlias
        /\ Finish(t, Res("key_not_found", 0, 0))
     \/ /\ ~keyStoreError
        /\ containsAlias
        /\ KeyPermanentlyInvalidated
        /\ Finish(t, Res("public_key_failed", 0, 0))
     \/ /\ ~keyStoreError
        /\ containsAlias
        /\ Finish(t, Res("public_key", encodedPublicKey(keyAlias), 0))
  /\ FreshCall(t, NoTx)
  /\ UNCHANGED <<prefs, wallet_prefs, nonceLock, transactionSigner, keyVars, histVars>>
  /\ service' = Delivered(t)
  /\ UNCHANGED appVars

\* Fault: keyExists without its catch clause.
keyExistsUncaught ==
  IF keyStoreError THEN Res("key_access_failed", 0, 0)
  ELSE Res("exists", IF keyAlias # 0 THEN 1 ELSE 0, 0)

\* WalletKeyManager.keyExists: try { containsAlias } catch (e: Exception) { false }
keyExists ==
  IF keyStoreError THEN Res("exists", 0, 0)
  ELSE Res("exists", IF keyAlias # 0 THEN 1 ELSE 0, 0)

\* WalletModule.keyExists
KeyExists(t) ==
  /\ Idle(t)
  /\ Finish(t, keyExists)
  /\ FreshCall(t, NoTx)
  /\ UNCHANGED <<prefs, wallet_prefs, nonceLock, transactionSigner, keyVars, histVars>>
  /\ service' = Delivered(t)
  /\ UNCHANGED appVars

\* Fault: getLastNonce answers the default without reading the preferences.
getLastNonceDefault == DEFAULT_NONCE

getLastNonce == getLong(prefs)

\* Fault: getNextNonce returns the last nonce itself.
getNextNonceWithoutIncrement == getLastNonce

\* TransactionSigner.getNextNonce
getNextNonce == plus(getLastNonce, 1)

\* WalletModule.getNextNonce
GetNextNonce(t) ==
  /\ Idle(t)
  /\ Finish(t, Res("next_nonce", toDouble(getNextNonce), 0))
  /\ FreshCall(t, NoTx)
  /\ UNCHANGED <<prefs, wallet_prefs, nonceLock, transactionSigner, keyVars, histVars>>
  /\ service' = Delivered(t)
  /\ UNCHANGED appVars

\* ------------------------------------------------------------ environment
\* The user unlocks the device: the key's authentication window opens.
Authenticate ==
  /\ ~authenticated
  /\ authenticated' = TRUE
  /\ UNCHANGED <<prefs, wallet_prefs, nonceLock, transactionSigner, keyAlias, keysGenerated,
                 invalidated, keyStoreError, pc, callVars, result, histVars>>
  /\ UNCHANGED <<service, appVars>>

\* AUTHENTICATION_VALIDITY_DURATION_SECONDS have passed.
AuthenticationExpires ==
  /\ authenticated
  /\ authenticated' = FALSE
  /\ UNCHANGED <<prefs, wallet_prefs, nonceLock, transactionSigner, keyAlias, keysGenerated,
                 invalidated, keyStoreError, pc, callVars, result, histVars>>
  /\ UNCHANGED <<service, appVars>>

\* Lock-screen credentials or biometric enrollment changed.
InvalidateKey ==
  /\ keyAlias # 0
  /\ ~invalidated
  /\ invalidated' = TRUE
  /\ UNCHANGED <<prefs, wallet_prefs, nonceLock, transactionSigner, keyAlias, keysGenerated,
                 authenticated, keyStoreError, pc, callVars, result, histVars>>
  /\ UNCHANGED <<service, appVars>>

\* The key store goes out of order: every query of it raises.
KeyStoreFails ==
  /\ ~keyStoreError
  /\ keyStoreError' = TRUE
  /\ UNCHANGED <<prefs, wallet_prefs, nonceLock, transactionSigner, keyAlias, keysGenerated,
                 invalidated, authenticated, pc, callVars, result, histVars>>
  /\ UNCHANGED <<service, appVars>>

\* The key store works again; the lazy keyStore property is initialised on
\* the next access, as a failed initialiser leaves it uninitialised.
KeyStoreRecovers ==
  /\ keyStoreError
  /\ keyStoreError' = FALSE
  /\ UNCHANGED <<prefs, wallet_prefs, nonceLock, transactionSigner, keyAlias, keysGenerated,
                 invalidated, authenticated, pc, callVars, result, histVars>>
  /\ UNCHANGED <<service, appVars>>

Next ==
  \/ \E t \in Threads : \E m \in TransactionArgs :
        SignTransaction(t, m.amount, m.currency, m.nonce)
  \/ \E t \in Threads : EnterNonceLock(t)
  \/ \E t \in Threads : ValidateAndSaveNonce(t)
  \/ \E t \in Threads : GetPrivateKeyEntry(t)
  \/ \E t \in Threads : Sign(t)
  \/ \E t \in Threads : GenerateKeyPair(t)
  \/ \E t \in Threads : CreateKey(t)
  \/ \E t \in Threads : GetPublicKey(t)
  \/ \E t \in Threads : KeyExists(t)
  \/ \E t \in Threads : GetNextNonce(t)
  \/ Authenticate
  \/ AuthenticationExpires
  \/ InvalidateKey

Spec == Init /\ [][Next]_vars

\* ------------------------------ one caller, transactions that look alike
\* Transactions whose fields run into each other when written one after the
\* other: amounts and currencies that share characters, currencies and an
\* amount that contain the separator, nonces of one and of two digits.
CanonicalAmounts == {<<"1">>, <<"1", "1">>, <<"1", "|", "U">>}
CanonicalCurrencies == {<<"U">>, <<"1", "U">>, <<"U", "|", "U">>, <<"U", "|", "1">>}
CanonicalNonces == {0, MaxCanonicalNonce}
CanonicalArgs ==
  {Arg(a, c, Num(2 * n)) : a \in CanonicalAmounts, c \in CanonicalCurrencies,
                           n \in CanonicalNonces}

NextCanonical ==
  \/ \E m \in CanonicalArgs : SignTransaction(1, m.amount, m.currency, m.nonce)
  \/ EnterNonceLock(1)
  \/ ValidateAndSaveNonce(1)
  \/ GetPrivateKeyEntry(1)
  \/ Sign(1)
  \/ GenerateKeyPair(1)
  \/ CreateKey(1)
  \/ Authenticate

SpecCanonical == Init /\ [][NextCanonical]_vars

\* ------------------------------------------------ walletService (wallet.ts)
\* parseFloat: leading white space is skipped, then the longest prefix that
\* is a decimal literal (or Infinity) is converted; NaN when there is none.
StrDecimalLiteral(v) ==
  LET es == {i \in 1..Len(v) : v[i] \in {"e", "E"}}
      m == IF es = {} THEN v ELSE SubSeq(v, 1, MinOf(es) - 1)
      x == IF es = {} THEN <<>> ELSE SubSeq(v, MinOf(es) + 1, Len(v))
  IN MantissaOk(m) /\ (es = {} \/ ExponentOk(x))

parseFloat(s) ==
  LET lead == {i \in 1..Len(s) : s[i] \notin Whitespace}
      t == IF lead = {} THEN <<>> ELSE SubSeq(s, MinOf(lead), Len(s))
      neg == t # <<>> /\ t[1] = "-"
      u == IF t # <<>> /\ t[1] \in {"+", "-"} THEN Tail(t) ELSE t
      ns == {n \in 1..Len(u) : StrDecimalLiteral(SubSeq(u, 1, n))}
      v == IF ns = {} THEN <<>> ELSE SubSeq(u, 1, MaxOf(ns))
      es == {i \in 1..Len(v) : v[i] \in {"e", "E"}}
      m == IF es = {} THEN v ELSE SubSeq(v, 1, MinOf(es) - 1)
      x == IF es = {} THEN <<>> ELSE SubSeq(v, MinOf(es) + 1, Len(v))
  IN IF Len(u) >= Len(InfinityLiteral)
        /\ SubSeq(u, 1, Len(InfinityLiteral)) = InfinityLiteral
     THEN (IF neg THEN "NegInf" ELSE "PosInf")
     ELSE IF ns = {} THEN "NaN"
     ELSE DecimalClass(neg, m, x)

\* (transaction.amount.split('.')[1] || '').length
decimalPlaces(amount) ==
  LET dots == {i \in 1..Len(amount) : amount[i] = "."}
      first == MinOf(dots)
      later == {i \in dots : i > first}
  IN IF dots = {} THEN 0
     ELSE IF later = {} THEN Len(amount) - first
     ELSE MinOf(later) - first - 1

\* The checks of walletService.signTransaction before the prompt: "ok" or the
\* kind of the Error thrown.
ServiceCheck(req) ==
  IF req.amount \in {NULL, <<>>} \/ req.currency \in {NULL, <<>>}
       \/ req.nonce.kind = "missing"
  THEN "js_invalid_transaction"
  ELSE IF parseFloat(req.amount) = "NaN" \/ LessOrEqualZero(parseFloat(req.amount))
  THEN "js_invalid_amount"
  ELSE IF decimalPlaces(req.amount) > 18 THEN "js_too_many_decimals"
  ELSE "ok"

\* The caller is not inside a walletService call.
ServiceIdle(t) == service[t].pc \in {"none", "settled"}

\* catch (error) { throw this.createWalletError(error) }
ServiceSettled(op, req, prompt, r) ==
  [pc |-> "settled", op |-> op, request |-> req, prompt |-> prompt, outcome |-> r]

nativeVars == <<prefs, wallet_prefs, nonceLock, transactionSigner, keyVars, pc, callVars,
                result, histVars>>

\* The walletService call a caller is in once the method has run up to its
\* first await: the checks of signTransaction have thrown, or it waits for
\* simplePrompt ("prompt"), or it is about to enter the native method
\* ("invoke").
ServiceCall(op, req) ==
  IF op = "signTransaction" /\ ServiceCheck(req) # "ok"
  THEN ServiceSettled("signTransaction", req, "none", Res(ServiceCheck(req), 0, 0))
  ELSE [pc |-> IF op \in {"signTransaction", "generateKeyPair"} THEN "prompt"
               ELSE "invoke",
        op |-> op, request |-> req, prompt |-> "none", outcome |-> NoResult]

\* walletService.signTransaction up to await rnBiometrics.simplePrompt(...)
WalletServiceSignTransaction(t, req) ==
  /\ ServiceIdle(t)
  /\ Idle(t)
  /\ service' = [service EXCEPT ![t] = ServiceCall("signTransaction", req)]
  /\ UNCHANGED <<nativeVars, appVars>>

\* walletService.generateKeyPair up to await rnBiometrics.simplePrompt(...)
WalletServiceGenerateKeyPair(t) ==
  /\ ServiceIdle(t)
  /\ Idle(t)
  /\ service' = [service EXCEPT ![t] = ServiceCall("generateKeyPair", NoService.request)]
  /\ UNCHANGED <<nativeVars, appVars>>

\* Fault: the test of the prompt's result left out.
PromptGateOpen(answer) == answer \in {"success", "failure"}

\* if (!success) throw new Error('Authentication cancelled or failed');
\* a prompt that rejects never reaches the test.
PromptGate(answer) == answer = "success"

\* rnBiometrics.simplePrompt settles: the user authenticated (which may open
\* the key's authentication window), cancelled or failed, or the prompt
\* could not be shown and rejects.
SimplePrompt(t, answer) ==
  /\ service[t].pc = "prompt"
  /\ service' = [service EXCEPT ![t] =
        IF PromptGate(answer)
        THEN [@ EXCEPT !.pc = "invoke", !.prompt = answer]
        ELSE ServiceSettled(@.op, @.request, answer,
                            Res(IF answer = "error" THEN "prompt_failed"
                                ELSE "auth_cancelled", 0, 0))]
  /\ IF answer = "success" THEN authenticated' \in {authenticated, TRUE}
     ELSE UNCHANGED authenticated
  /\ UNCHANGED <<prefs, wallet_prefs, nonceLock, transactionSigner, keyAlias, keysGenerated,
                 invalidated, keyStoreError, pc, callVars, result, histVars>>
  /\ UNCHANGED appVars

\* return await WalletModule.signTransaction({amount, currency, nonce})
InvokeSignTransaction(t) ==
  /\ service[t].pc = "invoke"
  /\ service[t].op = "signTransaction"
  /\ SignTransaction(t, service[t].request.amount, service[t].request.currency,
                     service[t].request.nonce)

\* return await WalletModule.generateKeyPair()
InvokeGenerateKeyPair(t) ==
  /\ service[t].pc = "invoke"
  /\ service[t].op = "generateKeyPair"
  /\ GenerateKeyPair(t)

\* return await WalletModule.keyExists()
InvokeKeyExists(t) ==
  /\ service[t].pc = "invoke"
  /\ service[t].op = "keyExists"
  /\ KeyExists(t)

\* return await WalletModule.getPublicKey()
InvokeGetPublicKey(t) ==
  /\ service[t].pc = "invoke"
  /\ service[t].op = "getPublicKey"
  /\ GetPublicKey(t)

\* const nextNonce = await WalletModule.getNextNonce()
InvokeGetNextNonce(t) ==
  /\ service[t].pc = "invoke"
  /\ service[t].op = "getNextNonce"
  /\ GetNextNonce(t)

\* Math.floor of a JavaScript number.
floor(x) == [x EXCEPT !.halves = 2 * (@ \div 2)]

\* The native promise settles and with it the walletService call; a
\* rejection goes through createWalletError, which keeps message and code.
ServiceReturns(t) ==
  /\ service[t].pc = "native"
  /\ pc[t] = "done"
  /\ service' = [service EXCEPT ![t] =
        ServiceSettled(@.op, @.request, @.prompt, result[t])]
  /\ UNCHANGED <<nativeVars, appVars>>

\* A single caller going through walletService.
NextService ==
  \/ \E m \in TransactionArgs : WalletServiceSignTransaction(1, m)
  \/ WalletServiceGenerateKeyPair(1)
  \/ \E answer \in {"success", "failure", "error"} : SimplePrompt(1, answer)
  \/ InvokeSignTransaction(1)
  \/ InvokeGenerateKeyPair(1)
  \/ EnterNonceLock(1)
  \/ ValidateAndSaveNonce(1)
  \/ GetPrivateKeyEntry(1)
  \/ Sign(1)
  \/ CreateKey(1)
  \/ ServiceReturns(1)
  \/ AuthenticationExpires
  \/ InvalidateKey

SpecService == Init /\ [][NextService]_vars

\* ------------------------------------------- mockBackend (mockBackend.ts)
\* A signature string: absent or empty, white space only, some other text,
\* or the encoding of an ECDSA signature made with key k over data.
SignatureText(form, k, data) == [form |-> form, key |-> k, data |-> data]
NoSignature == SignatureText("empty", 0, <<>>)
BlankSignature == SignatureText("blank", 0, <<>>)
ArbitrarySignature == SignatureText("text", 0, <<>>)
SignatureBy(k, m) ==
  SignatureText("ecdsa", k,
                createCanonicalTransactionData(m.amount, m.currency, toLong(m.nonce.halves)))

\* A public key string: absent or empty, some other text, or the encoding of
\* the public half of key k.
PublicKeyText(form, k) == [form |-> form, key |-> k]
NoPublicKey == PublicKeyText("empty", 0)
ArbitraryPublicKey == PublicKeyText("text", 0)
PublicKeyOf(k) == PublicKeyText("key", k)

Request(m, sig, pk) == [transaction |-> m, signature |-> sig, publicKey |-> pk]

\* The requests submitted: signed transactions with nonce 0 and 1, the
\* signature of one attached to the other, arbitrary, blank and missing
\* signatures, a missing public key, and malformed transactions.
Tx0 == Arg(Amount100_50, USD, Num(0))
Tx1 == Arg(Amount100_50, USD, Num(2))
BackendRequests ==
  {Request(Tx0, SignatureBy(1, Tx0), PublicKeyOf(1)),
   Request(Tx1, SignatureBy(1, Tx1), PublicKeyOf(1)),
   Request(Tx1, SignatureBy(1, Tx0), PublicKeyOf(1)),
   Request(Tx0, ArbitrarySignature, ArbitraryPublicKey),
   Request(Tx0, NoSignature, PublicKeyOf(1)),
   Request(Tx0, BlankSignature, PublicKeyOf(1)),
   Request(Tx0, SignatureBy(1, Tx0), NoPublicKey),
   Request(Arg(AmountZero, USD, Num(0)), SignatureBy(1, Tx0), PublicKeyOf(1)),
   Request(Arg(<<>>, USD, Num(0)), SignatureBy(1, Tx0), PublicKeyOf(1)),
   Request(Arg(Amount100_50, USD, NonceMissing), SignatureBy(1, Tx0), PublicKeyOf(1))}

\* Fault: validateTransaction without the processedNonces.has test.
NonceProcessedNever(nonce, processed) == FALSE

\* processedNonces.has(transaction.nonce)
NonceProcessed(nonce, processed) == nonce \in processed

\* MockBackendService.validateTransaction against the set of processed
\* nonces: "ok" or the error it returns.
validateTransaction(request, processed) ==
  LET transaction == request.transaction
  IN IF transaction.amount \in {NULL, <<>>} \/ transaction.currency \in {NULL, <<>>}
          \/ transaction.nonce.kind = "missing"
     THEN "Invalid transaction structure"
     ELSE IF parseFloat(transaction.amount) = "NaN"
             \/ LessOrEqualZero(parseFloat(transaction.amount))
     THEN "Amount must be a positive number"
     ELSE IF NonceProcessed(transaction.nonce, processed)
     THEN "Nonce has already been used (replay attack detected)"
     ELSE IF request.signature.form = "empty" THEN "Signature is required"
     ELSE IF request.publicKey.form = "empty" THEN "Public key is required"
     ELSE IF request.signature.form = "blank" THEN "Signature cannot be empty"
     ELSE "ok"

\* processedNonces.add(request.transaction.nonce)
add(processed, nonce) == processed \cup {nonce}

\* Fault: the nonce is recorded before the validation result is looked at.
processedAfterAddingFirst(validationResult, processed, nonce) == add(processed, nonce)

\* if (!validationResult.valid) return {success: false, ...};
\* processedNonces.add(request.transaction.nonce)
processedAfter(validationResult, processed, nonce) ==
  IF validationResult # "ok" THEN processed ELSE add(processed, nonce)

\* submitTransaction up to its await: the call waits for its 500 ms timer.
submitTransaction(request) ==
  /\ Len(responses) < MaxSubmissions
  /\ responses' = Append(responses, [status |-> "pending", request |-> request,
                                     error |-> "none"])
  /\ pending' = pending \cup {Len(responses) + 1}
  /\ UNCHANGED <<processedNonces, acceptedNonces>>

\* A client other than WalletApp calls submitTransaction.
SubmitTransaction(request) ==
  /\ submitTransaction(request)
  /\ UNCHANGED <<nativeVars, service, app>>

\* The timer of submission i fires and the rest of submitTransaction runs to
\* its return without interruption: validateTransaction, then
\* processedNonces.add and the success response, or the failure response.
SubmissionResumes(i) ==
  /\ i \in pending
  /\ pending' = pending \ {i}
  /\ LET request == responses[i].request
         validationResult == validateTransaction(request, processedNonces)
     IN /\ processedNonces' = processedAfter(validationResult, processedNonces,
                                             request.transaction.nonce)
        /\ IF validationResult # "ok"
           THEN /\ responses' = [responses EXCEPT ![i].status = "failure",
                                                  ![i].error = validationResult]
                /\ UNCHANGED acceptedNonces
           ELSE /\ acceptedNonces' = Append(acceptedNonces, request.transaction.nonce)
                /\ responses' = [responses EXCEPT ![i].status = "success"]
  /\ UNCHANGED <<nativeVars, service, app>>

\* MockBackendService.clearProcessedNonces
ClearProcessedNonces ==
  /\ processedNonces # {}
  /\ processedNonces' = {}
  /\ acceptedNonces' = <<>>
  /\ UNCHANGED <<pending, responses>>
  /\ UNCHANGED <<nativeVars, service, app>>

NextBackend ==
  \/ \E request \in BackendRequests : SubmitTransaction(request)
  \/ \E i \in 1..MaxSubmissions : SubmissionResumes(i)
  \/ ClearProcessedNonces

SpecBackend == Init /\ [][NextBackend]_vars

\* ------------------------------------ one caller, a key store that fails
\* A single caller (thread 1) using every operation of the module while the
\* key store fails and recovers and the key is invalidated.
NextKeyStore ==
  \/ \E m \in TransactionArgs : SignTransaction(1, m.amount, m.currency, m.nonce)
  \/ EnterNonceLock(1)
  \/ ValidateAndSaveNonce(1)
  \/ GetPrivateKeyEntry(1)
  \/ Sign(1)
  \/ GenerateKeyPair(1)
  \/ CreateKey(1)
  \/ GetPublicKey(1)
  \/ KeyExists(1)
  \/ GetNextNonce(1)
  \/ Authenticate
  \/ AuthenticationExpires
  \/ InvalidateKey
  \/ KeyStoreFails
  \/ KeyStoreRecovers

SpecKeyStore == Init /\ [][NextKeyStore]_vars

\* ------------------------------------------- one caller, many amounts
\* The amounts a caller may type: every string of up to MaxShort characters
\* over digits, point and minus, and the strings at the limits of the checks.
ShortAlphabet == {"0", "5", ".", "-"}
ShortStrings == UNION {[1..n -> ShortAlphabet] : n \in 0..MaxShort}
WithFraction(n) == <<"1", ".">> \o Repeat("1", n)
AmountCases ==
  ShortStrings
    \cup {Amount100_50, <<"-", "5", ".", "0", "0">>, NaNLiteral, InfinityLiteral,
          <<"-">> \o InfinityLiteral,
          WithFraction(MAX_DECIMAL_PLACES), WithFraction(MAX_DECIMAL_PLACES + 1),
          Repeat("1", MAX_AMOUNT_LENGTH), Repeat("1", MAX_AMOUNT_LENGTH + 1)}

AmountCaseArgs ==
  TransactionArgs \cup {Arg(a, USD, Num(0)) : a \in AmountCases}

\* A single caller (thread 1) signing transactions with these amounts.
NextAmounts ==
  \/ \E m \in AmountCaseArgs : SignTransaction(1, m.amount, m.currency, m.nonce)
  \/ EnterNonceLock(1)
  \/ ValidateAndSaveNonce(1)
  \/ GetPrivateKeyEntry(1)
  \/ Sign(1)
  \/ GenerateKeyPair(1)
  \/ CreateKey(1)
  \/ Authenticate

SpecAmounts == Init /\ [][NextAmounts]_vars

\* --------------------------------------------- process death and restart
\* The process is killed at any point and started again: every call in flight
\* is gone, WalletModule and its TransactionSigner are built anew, and prefs
\* is loaded from the file.  The keystore entry outlives the process.
Restart ==
  /\ prefs' = wallet_prefs
  /\ nonceLock' = [s \in Signers |-> NoThread]
  /\ transactionSigner' = [t \in Threads |-> 1]
  /\ pc' = [t \in Threads |-> "idle"]
  /\ tx' = [t \in Threads |-> NoTx]
  /\ lastNonce' = [t \in Threads |-> DEFAULT_NONCE]
  /\ privateKeyEntry' = [t \in Threads |-> 0]
  /\ committed' = [t \in Threads |-> FALSE]
  /\ keyUsed' = [t \in Threads |-> FALSE]
  /\ result' = [t \in Threads |-> NoResult]
  /\ service' = [t \in Threads |-> NoService]
  /\ processedNonces' = {}
  /\ pending' = {}
  /\ responses' = <<>>
  /\ acceptedNonces' = <<>>
  /\ app' = InitialApp
  /\ UNCHANGED <<wallet_prefs, keyVars, histVars>>

NextCrash == Next \/ Restart

SpecCrash == Init /\ [][NextCrash]_vars

\* ----------------------------------------------- a second WalletModule
\* The React instance is re-created: a new WalletModule with its own lazily
\* built TransactionSigner serves the caller's next calls, while calls that
\* entered the first module still run.  Both signers open the same
\* preference file and the same keystore.
NewWalletModule(t) ==
  /\ Idle(t)
  /\ transactionSigner[t] = 1
  /\ transactionSigner' = [transactionSigner EXCEPT ![t] = 2]
  /\ UNCHANGED <<prefs, wallet_prefs, nonceLock, keyVars, pc, callVars, result,
                 histVars>>
  /\ UNCHANGED <<service, appVars>>

\* Callers of both modules.  With two monitors the ledger can be written any
\* number of times, so new signTransaction calls stop after MaxCommits writes.
NextInstances ==
  \/ \E t \in Threads : \E m \in TransactionArgs :
        /\ Len(accepted) < MaxCommits
        /\ SignTransaction(t, m.amount, m.currency, m.nonce)
  \/ \E t \in Threads : EnterNonceLock(t)
  \/ \E t \in Threads : ValidateAndSaveNonce(t)
  \/ \E t \in Threads : GetPrivateKeyEntry(t)
  \/ \E t \in Threads : Sign(t)
  \/ \E t \in Threads : GenerateKeyPair(t)
  \/ \E t \in Threads : CreateKey(t)
  \/ \E t \in Threads : NewWalletModule(t)
  \/ Authenticate

SpecInstances == Init /\ [][NextInstances]_vars

\* --------------------------------------- one caller, nonces with gaps
\* Well-formed transactions with every nonce up to MaxGapNonce.
GapArgs == {Arg(Amount100_50, USD, Num(2 * k)) : k \in 0..MaxGapNonce}

NextGaps ==
  \/ \E m \in GapArgs : SignTransaction(1, m.amount, m.currency, m.nonce)
  \/ EnterNonceLock(1)
  \/ ValidateAndSaveNonce(1)
  \/ GetPrivateKeyEntry(1)
  \/ Sign(1)
  \/ GenerateKeyPair(1)
  \/ CreateKey(1)
  \/ GetNextNonce(1)

SpecGaps == Init /\ [][NextGaps]_vars

\* ------------------------------- one caller, nonces at the end of Long
\* Well-formed transactions whose nonce is 0, the largest number below
\* Long.MAX_VALUE that a JavaScript number holds, or a number beyond
\* Long.MAX_VALUE.
OverflowArgs ==
  {Arg(Amount100_50, USD, Num(2 * k)) : k \in {0, LONG_MAX - 1, LONG_MAX + 1}}

NextOverflow ==
  \/ \E m \in OverflowArgs : SignTransaction(1, m.amount, m.currency, m.nonce)
  \/ EnterNonceLock(1)
  \/ ValidateAndSaveNonce(1)
  \/ GetPrivateKeyEntry(1)
  \/ Sign(1)
  \/ GenerateKeyPair(1)
  \/ CreateKey(1)
  \/ GetNextNonce(1)

SpecOverflow == Init /\ [][NextOverflow]_vars

\* -------------------------------------------------------------- WalletApp
\* The screen and its handlers.  WalletApp is caller 1 of walletService.  Its
\* handlers run one at a time: both buttons are disabled while loading, and
\* the check the mount effect starts is over before the first press.  The
\* amount and currency fields keep their initial text; the nonce field is
\* not editable.

\* The Generate Key Pair button is rendered ({!keyExists && ...}) and enabled.
GenerateKeyButton == ~app.keyExists /\ ~app.loading

\* The Sign & Send button is enabled: disabled={!keyExists || loading}.
SignAndSendButton == app.keyExists /\ ~app.loading

\* !value for the text of a field.
FalsyString(v) == v \in {NULL, <<>>}

\* !value for a number: true for 0 and NaN.
FalsyNumber(n) == n.kind # "num" \/ n.halves = 0

\* const transaction: Transaction = {amount, currency, nonce}
Transaction == Arg(app.amount, app.currency, app.nonce)

\* The awaited walletService call of the running handler has settled.
Resumed(op) ==
  /\ app.step = op
  /\ service[1].pc = "settled"
  /\ service[1].op = op

\* The handler returns; finally { setLoading(false) } where it has one.
Returned(a) == [a EXCEPT !.handler = "none", !.step = "none", !.loading = FALSE]

\* useEffect(() => { checkKeyExists() }, []) up to
\* await walletService.keyExists()
CheckKeyExists ==
  /\ app.handler = "checkKeyExists"
  /\ app.step = "start"
  /\ ServiceIdle(1)
  /\ Idle(1)
  /\ service' = [service EXCEPT ![1] = ServiceCall("keyExists", NoService.request)]
  /\ app' = [app EXCEPT !.step = "keyExists"]
  /\ UNCHANGED <<nativeVars, backendVars>>

\* checkKeyExists after keyExists: setKeyExists(exists); if (exists) up to
\* await walletService.getPublicKey()
KeyExistsAnswered ==
  /\ app.handler = "checkKeyExists"
  /\ Resumed("keyExists")
  /\ LET r == service[1].outcome
     IN IF r.kind # "exists"
        THEN /\ app' = [Returned(app) EXCEPT !.status = "Error checking key"]
             /\ UNCHANGED service
        ELSE IF r.a = 1
        THEN /\ app' = [app EXCEPT !.keyExists = TRUE, !.step = "getPublicKey"]
             /\ service' = [service EXCEPT
                              ![1] = ServiceCall("getPublicKey", NoService.request)]
        ELSE /\ app' = [Returned(app) EXCEPT !.keyExists = FALSE]
             /\ UNCHANGED service
  /\ UNCHANGED <<nativeVars, backendVars>>

\* checkKeyExists after getPublicKey: setPublicKey(pubKey), up to
\* await walletService.getNextNonce(); a rejection goes to the catch.
PublicKeyAnswered ==
  /\ app.handler = "checkKeyExists"
  /\ Resumed("getPublicKey")
  /\ LET r == service[1].outcome
     IN IF r.kind = "public_key"
        THEN /\ app' = [app EXCEPT !.publicKey = PublicKeyOf(r.a.key),
                                   !.step = "getNextNonce"]
             /\ service' = [service EXCEPT
                              ![1] = ServiceCall("getNextNonce", NoService.request)]
        ELSE /\ app' = [Returned(app) EXCEPT !.status = "Error checking key"]
             /\ UNCHANGED service
  /\ UNCHANGED <<nativeVars, backendVars>>

\* walletService.getNextNonce returns Math.floor(nextNonce); the handler that
\* awaited it calls setNonce(nextNonce) and runs to its end.
NextNonceAnswered ==
  /\ Resumed("getNextNonce")
  /\ LET nextNonce == floor(Num(2 * service[1].outcome.a))
         a == [Returned(app) EXCEPT !.nonce = nextNonce]
     IN app' = IF app.handler = "handleGenerateKey"
               THEN [a EXCEPT !.status = "Key pair generated successfully!",
                              !.alert = "Key pair generated successfully"]
               ELSE IF app.handler = "handleSignAndSend"
               THEN [a EXCEPT !.alert = "Transaction submitted successfully!"]
               ELSE a
  /\ UNCHANGED <<nativeVars, service, backendVars>>

\* handleGenerateKey up to await rnBiometrics.simplePrompt(...) of
\* walletService.generateKeyPair
HandleGenerateKey ==
  /\ app.handler = "none"
  /\ GenerateKeyButton
  /\ ServiceIdle(1)
  /\ Idle(1)
  /\ keysGenerated < MaxKeyGen
  /\ app' = [app EXCEPT !.loading = TRUE, !.status = "",
                        !.handler = "handleGenerateKey", !.step = "generateKeyPair"]
  /\ service' = [service EXCEPT ![1] = ServiceCall("generateKeyPair", NoService.request)]
  /\ UNCHANGED <<nativeVars, backendVars>>

\* handleGenerateKey after generateKeyPair: setPublicKey, setKeyExists(true),
\* up to await walletService.getNextNonce(); a rejection goes to the catch.
GenerateKeyAnswered ==
  /\ app.handler = "handleGenerateKey"
  /\ Resumed("generateKeyPair")
  /\ LET r == service[1].outcome
     IN IF r.kind = "generated"
        THEN /\ app' = [app EXCEPT !.publicKey = PublicKeyOf(r.a.key),
                                   !.keyExists = TRUE, !.step = "getNextNonce"]
             /\ service' = [service EXCEPT
                              ![1] = ServiceCall("getNextNonce", NoService.request)]
        ELSE /\ app' = [Returned(app) EXCEPT !.status = "Failed to generate key",
                                             !.alert = "Failed to generate key"]
             /\ UNCHANGED service
  /\ UNCHANGED <<nativeVars, backendVars>>

\* handleSignAndSend up to await rnBiometrics.simplePrompt(...) of
\* walletService.signTransaction, or to one of its early returns.
HandleSignAndSend ==
  /\ app.handler = "none"
  /\ SignAndSendButton
  /\ ServiceIdle(1)
  /\ Idle(1)
  /\ app.nonce.halves <= 2 * MaxAppNonce
  /\ Len(responses) < MaxSubmissions
  /\ IF ~app.keyExists
     THEN /\ app' = [app EXCEPT !.alert = "Please generate a key pair first"]
          /\ UNCHANGED service
     ELSE IF FalsyString(app.amount) \/ FalsyString(app.currency) \/ FalsyNumber(app.nonce)
     THEN /\ app' = [app EXCEPT !.alert = "Please fill in all transaction fields"]
          /\ UNCHANGED service
     ELSE /\ app' = [app EXCEPT !.loading = TRUE, !.status = "", !.alert = "",
                                !.handler = "handleSignAndSend",
                                !.step = "signTransaction"]
          /\ service' = [service EXCEPT
                           ![1] = ServiceCall("signTransaction", Transaction)]
  /\ UNCHANGED <<nativeVars, backendVars>>

\* Fault: the handler goes on to the backend whatever signTransaction
\* settled with.
SignTransactionResolvedAlways(r) == TRUE

\* await walletService.signTransaction(transaction) resolved with a signature.
SignTransactionResolved(r) == r.kind = "signed"

\* handleSignAndSend after signTransaction: if (!publicKey) throw; up to the
\* await inside mockBackendService.submitTransaction; a rejection goes to
\* the catch.
SignatureAnswered ==
  /\ app.handler = "handleSignAndSend"
  /\ Resumed("signTransaction")
  /\ LET r == service[1].outcome
     IN IF SignTransactionResolved(r) /\ app.publicKey.form # "empty"
        THEN /\ submitTransaction(Request(Transaction, SignatureBy(r.a, Transaction),
                                          app.publicKey))
             /\ app' = [app EXCEPT !.step = "submitTransaction",
                                   !.submission = Len(responses) + 1]
        ELSE /\ app' = [Returned(app) EXCEPT
                          !.status = "Failed to sign/send transaction",
                          !.alert = "Failed to sign/send transaction"]
             /\ UNCHANGED backendVars
  /\ UNCHANGED <<nativeVars, service>>

\* handleSignAndSend after submitTransaction: on success setStatus and up to
\* await walletService.getNextNonce(); otherwise setStatus and the end.
BackendAnswered ==
  /\ app.handler = "handleSignAndSend"
  /\ app.step = "submitTransaction"
  /\ app.submission \in 1..Len(responses)
  /\ responses[app.submission].status # "pending"
  /\ IF responses[app.submission].status = "success"
     THEN /\ app' = [app EXCEPT !.status = "Transaction successful!",
                                !.step = "getNextNonce"]
          /\ service' = [service EXCEPT
                           ![1] = ServiceCall("getNextNonce", NoService.request)]
     ELSE /\ app' = [Returned(app) EXCEPT !.status = "Transaction failed",
                                          !.alert = "Transaction failed"]
          /\ UNCHANGED service
  /\ UNCHANGED <<nativeVars, backendVars>>

\* WalletApp on a device: the user presses the buttons and answers the
\* prompts, the platform invalidates the key, the key store fails for a
\* while, the process is killed and the application started again.
NextApp ==
  \/ CheckKeyExists
  \/ KeyExistsAnswered
  \/ PublicKeyAnswered
  \/ NextNonceAnswered
  \/ HandleGenerateKey
  \/ GenerateKeyAnswered
  \/ HandleSignAndSend
  \/ SignatureAnswered
  \/ BackendAnswered
  \/ \E answer \in {"success", "failure", "error"} : SimplePrompt(1, answer)
  \/ InvokeKeyExists(1)
  \/ InvokeGetPublicKey(1)
  \/ InvokeGetNextNonce(1)
  \/ InvokeSignTransaction(1)
  \/ InvokeGenerateKeyPair(1)
  \/ EnterNonceLock(1)
  \/ ValidateAndSaveNonce(1)
  \/ GetPrivateKeyEntry(1)
  \/ Sign(1)
  \/ CreateKey(1)
  \/ ServiceReturns(1)
  \/ \E i \in 1..MaxSubmissions : SubmissionResumes(i)
  \/ InvalidateKey
  \/ KeyStoreFails
  \/ KeyStoreRecovers
  \/ Restart

SpecApp == Init /\ [][NextApp]_vars


\* ================================================================ claims
Range(q) == {q[i] : i \in 1..Len(q)}
StrictlyIncreasing(q) == \A i, j \in 1..Len(q) : i < j => q[i] < q[j]

\* The thread's current or last call is a signTransaction that passed validation.
InSign(t) == tx[t] # NoTx

ValidationErrors == {"invalid_input", "missing_nonce", "invalid_amount"}
KeyErrors == {"key_not_found", "auth_required", "key_invalidated"}
SignErrors == ValidationErrors \cup KeyErrors \cup {"nonce_too_low", "sign_failed"}

\* ------------------------------------------------------------------- C1
\* C1 as stated: the nonces of the signatures produced are pairwise distinct
\* and every signature is produced over a nonce strictly greater than the
\* nonce of every signature produced before it.
C1_SignedInIncreasingOrder ==
  [][\A s \in signatures' \ signatures :
        s.copy = 1 /\ \A r \in signatures : s.nonce > r.nonce]_vars

\* C1 amended: the nonces of the signatures produced are pairwise distinct,
\* every signature is over a nonce its call committed, and the nonces are
\* committed in strictly increasing order (signatures of overlapping calls may
\* be produced in another order than their nonces were committed).
C1_SignedNoncesDistinctAndCommittedIncreasing ==
  /\ \A s, r \in signatures : s.nonce = r.nonce => s = r
  /\ \A s \in signatures : s.copy = 1 /\ s.nonce \in Range(accepted)
  /\ StrictlyIncreasing(accepted)

\* Two overlapping calls have both produced their signature, over different nonces.
C1_Witness ==
  \E t, u \in Threads :
    /\ t # u
    /\ result[t].kind = "signed" /\ result[u].kind = "signed"
    /\ result[t].b # result[u].b
    /\ Cardinality(signatures) >= 2

\* ------------------------------------------------------------------- C2
\* C2: read, comparison and write of validateAndSaveNonce are one atomic step
\* with respect to the other signTransaction calls: while a caller is between
\* its read and its write, the value it read is still the stored one and no
\* other caller is between its own read and write.
C2_CheckAndCommitAtomic ==
  \A t \in Threads :
    pc[t] = "check" =>
      /\ lastNonce[t] = getLong(prefs)
      /\ \A u \in Threads \ {t} : pc[u] # "check"

\* A caller is inside the check while another one races with the same nonce
\* or the next one.
C2_Witness ==
  \E t, u \in Threads :
    /\ pc[t] = "check" /\ pc[u] = "lock"
    /\ tx[u].nonce \in {tx[t].nonce, tx[t].nonce + 1}
    /\ tx[t].nonce > getLong(prefs)

\* ------------------------------------------------------------------- C3
\* C3: no nonce is accepted twice over the lifetime of the ledger.
C3_NoDoubleAccept ==
  \A i, j \in 1..Len(accepted) : i # j => accepted[i] # accepted[j]

\* A second check-and-commit of an accepted nonce has been rejected.
C3_Witness ==
  \E t \in Threads :
    /\ result[t].kind = "nonce_too_low"
    /\ result[t].a \in Range(accepted)

\* ------------------------------------------------------------------- C4
\* C4: a check-and-commit succeeds exactly when its nonce is strictly greater
\* than the stored value at the moment it is served, a rejected one changes
\* nothing, and the stored value is always the maximum accepted nonce (or the
\* initial -1 when none was accepted).
C4_Monotonicity ==
  /\ [](getLong(prefs) = MaxOf(Range(accepted) \cup {DEFAULT_NONCE}))
  /\ [][\A t \in Threads :
          (pc[t] = "check" /\ pc'[t] # "check") =>
            IF tx[t].nonce > getLong(prefs)
            THEN /\ accepted' = Append(accepted, tx[t].nonce)
                 /\ getLong(prefs') = tx[t].nonce
                 /\ committed'[t]
            ELSE /\ accepted' = accepted
                 /\ prefs' = prefs
                 /\ ~committed'[t]
                 /\ result'[t].kind = "nonce_too_low"]_vars

\* Several nonces were accepted and a non-increasing one was rejected.
C4_Witness ==
  /\ Len(accepted) >= 2
  /\ getLong(prefs) = accepted[Len(accepted)]
  /\ \E t \in Threads : result[t].kind = "nonce_too_low"

\* ------------------------------------------------------------------- C5
\* C5: lastAcceptedNonce starts at -1 and no step of any operation decreases it.
C5_NeverDecreases ==
  /\ getLong(prefs) = DEFAULT_NONCE
  /\ [][getLong(prefs') >= getLong(prefs)]_vars

\* The ledger has advanced, the key was regenerated and read-only calls ran.
C5_Witness ==
  /\ getLong(prefs) = MaxNonce
  /\ keysGenerated >= 2
  /\ \E t \in Threads : result[t].kind \in {"next_nonce", "exists", "public_key"}

\* ------------------------------------------------------------------- C6
\* C6: a call reaches the key manager only after it committed its nonce; a
\* call whose nonce check failed never reaches it, and only a call that
\* committed its nonce produces a signature.
C6_CommitBeforeKeyAccess ==
  /\ [](\A t \in Threads :
          /\ keyUsed[t] => committed[t]
          /\ result[t].kind = "nonce_too_low" => ~keyUsed[t])
  /\ [][\A t \in Threads :
          (signatures' # signatures /\ pc'[t] # pc[t]) =>
            (committed[t] /\ keyUsed[t] /\ result[t].kind = "none")]_vars

\* One call was stopped by the nonce check although a key exists, another
\* one went on to the key after its commit.
C6_Witness ==
  \E t, u \in Threads :
    /\ result[t].kind = "nonce_too_low" /\ ~keyUsed[t] /\ keyAlias # 0
    /\ keyUsed[u] /\ committed[u]

\* ------------------------------------------------------------------- C7
\* C7: a valid call that finds the key absent, invalidated or outside the
\* authentication window fails with the matching key error, produces no
\* signature and leaves its nonce committed: the stored value is not rolled
\* back, it is the call's nonce (or a larger one accepted after it).
KeyErrorFor(t) ==
  IF keyAlias = 0 THEN "key_not_found"
  ELSE IF invalidated THEN "key_invalidated"
  ELSE "auth_required"

PlainDecimal(a) ==
  LET u == IF a # <<>> /\ a[1] \in {"+", "-"} THEN Tail(a) ELSE a
      points == {i \in 1..Len(u) : u[i] = "."}
  IN /\ \A i \in 1..Len(u) : u[i] \in Digit \cup {"."}
     /\ Cardinality(points) <= 1
     /\ \E i \in 1..Len(u) : u[i] \in Digit

PositivePlainDecimal(a) ==
  /\ PlainDecimal(a)
  /\ a[1] # "-"
  /\ \E i \in 1..Len(a) : a[i] \in Digit \ {"0"}

\* Digits after the decimal point.
FractionDigits(a) ==
  LET points == {i \in 1..Len(a) : a[i] = "."}
  IN IF points = {} THEN 0 ELSE Len(a) - MinOf(points)

\* C10's amounts: non-empty, at most 50 characters, a positive finite decimal
\* number, at most 18 digits after the point.
ClaimedValidAmount(a) ==
  /\ a # NULL
  /\ a # <<>>
  /\ Len(a) <= MAX_AMOUNT_LENGTH
  /\ PositivePlainDecimal(a)
  /\ FractionDigits(a) <= MAX_DECIMAL_PLACES

\* C9's transactions that fail structural validation; for C9 an infinite
\* amount still counts as a positive number.
StructurallyInvalid(m) ==
  \/ m.amount = NULL
  \/ m.amount = <<>>
  \/ Len(m.amount) > MAX_AMOUNT_LENGTH
  \/ ~(PositivePlainDecimal(m.amount) \/ m.amount = InfinityLiteral)
  \/ FractionDigits(m.amount) > MAX_DECIMAL_PLACES
  \/ m.currency \in {NULL, <<>>}
  \/ m.nonce.kind \in {"missing", "nan"}
  \/ m.nonce.halves < 0

\* C9: a signTransaction call whose transaction fails structural validation
\* ends at once with an invalid-transaction error, produces no signature and
\* leaves lastAcceptedNonce and the key as they were.
C9_InvalidTransactionRejected ==
  [][\A m \in AmountCaseArgs :
        (SignTransaction(1, m.amount, m.currency, m.nonce) /\ StructurallyInvalid(m)) =>
          /\ pc'[1] = "done"
          /\ result'[1].kind \in ValidationErrors
          /\ UNCHANGED <<prefs, keyVars, histVars>>]_vars

\* C10: with the other fields well-formed, signTransaction lets an amount
\* pass validation if and only if it is a valid amount in the sense above.
C10_AmountAcceptedIffValid ==
  [][\A m \in AmountCaseArgs :
        ( /\ SignTransaction(1, m.amount, m.currency, m.nonce)
          /\ m.currency = USD /\ m.nonce.kind = "num" /\ m.nonce.halves >= 0 ) =>
          (pc'[1] = "lock" <=> ClaimedValidAmount(m.amount))]_vars

\* ------------------------------------------------------------------ C11
\* C11: a check-and-commit whose candidate is not greater than the stored
\* nonce fails with the nonce-too-low error carrying the rejected candidate
\* and the stored nonce it was compared against, and changes neither the
\* stored nonce nor the file; a repeated sign call with nonce 0 after its
\* acceptance is rejected with (0, 0).
C11_NonceTooLowReportsBothValues ==
  /\ [](\A t \in Threads :
          result[t].kind = "nonce_too_low" =>
            /\ result[t].a <= result[t].b
            /\ result[t].b <= getLong(prefs)
            /\ ~committed[t])
  /\ [][\A t \in Threads :
          (pc[t] = "check" /\ pc'[t] # "check" /\ tx[t].nonce <= getLong(prefs)) =>
            /\ pc'[t] = "done"
            /\ result'[t] = Res("nonce_too_low", tx[t].nonce, getLong(prefs))
            /\ prefs' = prefs
            /\ wallet_prefs' = wallet_prefs
            /\ accepted' = accepted]_vars

\* Nonce 0 was accepted and signed, and the same call made again was rejected
\* reporting rejected 0 and last accepted 0.
C11_Witness ==
  /\ accepted = <<0>>
  /\ \E s \in signatures : s.nonce = 0
  /\ \E t \in Threads : result[t] = Res("nonce_too_low", 0, 0)

\* ------------------------------------------------------------------ C12
\* C12: the nonce step accepts a candidate exactly when it is greater than the
\* stored nonce, however many values it skips, and rejects it otherwise; once
\* the largest nonce was accepted on a fresh ledger nothing else is accepted.
C12_AcceptedIffGreater ==
  /\ [](\A i \in 1..Len(accepted) :
          accepted[i] = MaxGapNonce => i = Len(accepted))
  /\ [][(pc[1] = "check" /\ pc'[1] # "check") =>
          /\ (tx[1].nonce > getLong(prefs)) <=>
               ( /\ pc'[1] = "key"
                 /\ getLong(prefs') = tx[1].nonce
                 /\ accepted' = Append(accepted, tx[1].nonce) )
          /\ (tx[1].nonce <= getLong(prefs)) <=>
               ( /\ pc'[1] = "done"
                 /\ result'[1].kind = "nonce_too_low"
                 /\ prefs' = prefs
                 /\ accepted' = accepted )]_vars

\* On a fresh ledger the largest nonce was accepted first, skipping all the
\* smaller ones, and a later call with a nonce two below it was rejected.
C12_Witness ==
  /\ accepted = <<MaxGapNonce>>
  /\ MaxGapNonce >= 3
  /\ result[1] = Res("nonce_too_low", MaxGapNonce - 2, MaxGapNonce)

\* ------------------------------------------------------------------ C13
\* C13: a signTransaction that succeeded with nonce n has committed n, and
\* while no later nonce was committed the stored nonce is n; getNextNonce
\* returns the successor of the nonce committed last (0 on a fresh ledger), so
\* issued after a successful sign of n with no other sign in between it
\* returns n + 1.
C13_SuccessLeavesNonceAndNextIsSuccessor ==
  /\ [](\A t \in Threads :
          result[t].kind = "signed" =>
            /\ result[t].b = tx[t].nonce
            /\ committed[t]
            /\ result[t].b \in Range(accepted)
            /\ getLong(prefs) >= result[t].b
            /\ accepted[Len(accepted)] = result[t].b => getLong(prefs) = result[t].b)
  /\ [][\A u \in Threads :
          GetNextNonce(u) =>
            /\ result'[u].a =
                 (IF accepted = <<>> THEN 0 ELSE accepted[Len(accepted)] + 1)
            /\ \A t \in Threads :
                 (result[t].kind = "signed" /\ accepted[Len(accepted)] = result[t].b)
                   => result'[u].a = result[t].b + 1]_vars

\* Fresh ledger and first key: nonce 0 was signed, the ledger holds 0 and
\* getNextNonce has returned 1.
C13_Witness ==
  /\ accepted = <<0>>
  /\ getLong(prefs) = 0
  /\ keysGenerated = 1
  /\ \E t, u \in Threads :
       /\ result[t] = Res("signed", 1, 0)
       /\ result[u] = Res("next_nonce", 1, 0)

\* ------------------------------------------------------------------ C14
\* The step changes the locals of thread t: it is a step of t's call.
StepOf(t) ==
  <<pc[t], result[t], tx[t], lastNonce[t], privateKeyEntry[t], committed[t],
    keyUsed[t]>> #
  <<pc'[t], result'[t], tx'[t], lastNonce'[t], privateKeyEntry'[t], committed'[t],
    keyUsed'[t]>>

\* C14: getNextNonce returns the stored nonce plus one and has no side effect:
\* the step that settles it leaves the stored nonce, the file, the monitors,
\* the key state, the history and every other caller's call as they were, which
\* is all a later sign call reads.
C14_GetNextNonceReadOnly ==
  [][\A t \in Threads :
        (StepOf(t) /\ result'[t].kind = "next_nonce") =>
          /\ result'[t] = Res("next_nonce", getLong(prefs) + 1, 0)
          /\ pc'[t] = "done"
          /\ UNCHANGED <<prefs, wallet_prefs, nonceLock, transactionSigner, keyVars,
                         histVars>>
          /\ \A u \in Threads \ {t} :
               /\ pc'[u] = pc[u] /\ result'[u] = result[u] /\ tx'[u] = tx[u]
               /\ lastNonce'[u] = lastNonce[u] /\ committed'[u] = committed[u]]_vars

\* getNextNonce was answered between two sign calls: one signature exists,
\* another sign call is waiting for the monitor, and the answer was above 0.
C14_Witness ==
  \E t, u \in Threads :
    /\ t # u
    /\ result[t].kind = "next_nonce" /\ result[t].a >= 1
    /\ pc[u] = "lock"
    /\ signatures # {}

C16_MutualExclusionAcrossInstances ==
  \A t, u \in Threads :
    (t # u /\ pc[t] = "check") => pc[u] # "check"

\* ------------------------------------------------------------------ C17
\* C17 as stated: between a sign call's key access and its signature no
\* generateKeyPair runs: while a call holds the key entry, that key is the
\* one under the alias and no caller is inside generateKeyPair.
C17_KeyUseExcludesGeneration ==
  \A t \in Threads :
    pc[t] = "sign" =>
      /\ keyAlias = privateKeyEntry[t]
      /\ \A u \in Threads : pc[u] # "generate"

\* ------------------------------------------------------------------ C18
\* C18: a signature is only produced by the signing step of a signTransaction
\* call, over the string amount|currency|nonce (nonce in base 10) of that
\* call's transaction, which passed validateAmount and whose nonce that call
\* committed before.
C18_OnlyCanonicalDataSigned ==
  /\ [](\A s \in signatures : s.nonce \in Range(accepted))
  /\ [][signatures' # signatures =>
          \E t \in Threads :
            /\ StepOf(t)
            /\ pc[t] = "sign"
            /\ committed[t]
            /\ validateAmount(tx[t].amount) = "ok"
            /\ tx[t].currency \notin {NULL, <<>>}
            /\ \E s \in signatures' :
                 /\ signatures' = signatures \cup {s}
                 /\ s.nonce = tx[t].nonce
                 /\ s.data = tx[t].amount \o <<"|">> \o tx[t].currency
                               \o <<"|">> \o LongToString(tx[t].nonce)]_vars

\* Overlapping calls were signed, one of them over 100.50|USD|1.
C18_Witness ==
  /\ \E s \in signatures :
       /\ s.nonce = 1
       /\ s.data = <<"1", "0", "0", ".", "5", "0", "|", "U", "S", "D", "|", "1">>
  /\ \E s \in signatures : s.nonce = 0

\* ------------------------------------------------------------------ C19
ErrorKinds == SignErrors \cup {"key_gen_failed", "key_access_failed", "public_key_failed"}

\* C19: what a settled call hands to its caller is a public key, a signature
\* recorded as produced, a boolean, a nonce, or an error with message and code
\* naming at most nonces; no part of it is private-key material, although the
\* call may have held the private key entry.
C19_NoPrivateKeyCrossesBoundary ==
  \A t \in Threads :
    LET r == result[t]
    IN CASE r.kind \in {"generated", "public_key"} ->
              /\ r.a.part = "public"
              /\ r.a.key \in 1..keysGenerated
              /\ r.b = 0
         [] r.kind = "signed" ->
              \E s \in signatures : s.key = r.a /\ s.nonce = r.b
         [] r.kind = "exists" -> r.a \in {0, 1} /\ r.b = 0
         [] r.kind = "next_nonce" -> r.a \in 0..(MaxNonce + 1) /\ r.b = 0
         [] r.kind = "nonce_too_low" ->
              /\ r.a \in 0..MaxNonce /\ r.b \in 0..MaxNonce
              /\ createWalletError(r).code = "WALLET_ERROR"
         [] r.kind \in ErrorKinds \ {"nonce_too_low"} ->
              /\ r.a = 0 /\ r.b = 0
              /\ createWalletError(r).code
                   \in {"WALLET_ERROR", "INVALID_INPUT", "UNKNOWN_ERROR"}
         [] OTHER -> r.kind = "none"

\* A call that held the private key entry returned a signature, and another
\* call returned the public key of the same key.
C19_Witness ==
  \E t, u \in Threads :
    /\ result[t].kind = "signed" /\ privateKeyEntry[t] # 0
    /\ result[u].kind = "public_key"
    /\ result[u].a.key = result[t].a

\* ------------------------------------------------------------------ C20
\* C20: a successful generateKeyPair leaves the key it returned under the
\* alias, not invalidated; the alias never holds another key than the one
\* generated last, so keyExists answers true and getPublicKey returns that
\* key's public key while it is there, and every signature produced is made
\* with the key generated last: a key that was replaced signs no more.
C20_GenerateReplacesKey ==
  /\ [](keyAlias \in {0, keysGenerated})
  /\ [][\A t \in Threads :
          /\ (StepOf(t) /\ result'[t].kind = "generated") =>
               /\ keyAlias' = keysGenerated'
               /\ keysGenerated' = keysGenerated + 1
               /\ result'[t].a.key = keyAlias' /\ result'[t].a.part = "public"
               /\ ~invalidated'
          /\ (StepOf(t) /\ result'[t].kind = "exists") =>
               (result'[t].a = 1 <=> keyAlias # 0)
          /\ (StepOf(t) /\ result'[t].kind = "public_key") =>
               /\ keyAlias # 0
               /\ result'[t].a.key = keyAlias /\ result'[t].a.part = "public"]_vars
  /\ [][\A s \in signatures' \ signatures : s.key = keysGenerated]_vars

\* The key was replaced: after signatures with the first key, generateKeyPair
\* returned the second one, keyExists answered true and a signature was made
\* with the second key.
C20_Witness ==
  /\ keyAlias = 2
  /\ \E s \in signatures : s.key = 1
  /\ \E s \in signatures : s.key = 2
  /\ \E t \in Threads : result[t] = Res("exists", 1, 0)

\* ------------------------------------------------------------------ C21
\* C21 as stated: once a key is present under the alias, every later step of
\* every operation leaves a key present, so keyExists never goes from true
\* back to false.
C21_KeyNeverAbsentAgain ==
  [][keyAlias # 0 => keyAlias' # 0]_vars

\* ------------------------------------------------------------------ C22
\* The step is caller t's getPublicKey call settling.
GetPublicKeySettles(t) ==
  /\ Idle(t)
  /\ StepOf(t)
  /\ result'[t].kind \in {"public_key", "public_key_failed", "key_not_found"}

\* C22 as stated: getPublicKey fails with the key-not-found error whenever no
\* key exists under the alias and returns the public key of the current key
\* whenever one exists, and changes neither key state nor stored nonce.
C22_PublicKeyWheneverKeyExists ==
  [][\A t \in Threads :
        GetPublicKeySettles(t) =>
          /\ keyAlias = 0 => result'[t] = Res("key_not_found", 0, 0)
          /\ keyAlias # 0 =>
                result'[t] = Res("public_key", [key |-> keyAlias, part |-> "public"], 0)
          /\ UNCHANGED <<keyVars, prefs, wallet_prefs>>]_vars

\* C22 amended: getPublicKey fails with the key-not-found error when no key
\* exists under the alias and the key store answers, and only then; it
\* returns the public key of the current key when the key store hands out
\* the entry, which it does whenever the key is there, not invalidated, and
\* the key store answers; otherwise (key store out of order, or the entry of
\* an invalidated key refused) it fails with a WALLET_ERROR.  In every case
\* it changes neither the key state nor the stored nonce.
C22_PublicKeyUnlessStoreRefuses ==
  [][\A t \in Threads :
        GetPublicKeySettles(t) =>
          /\ result'[t].kind = "key_not_found" => keyAlias = 0 /\ ~keyStoreError
          /\ (keyAlias = 0 /\ ~keyStoreError) => result'[t] = Res("key_not_found", 0, 0)
          /\ result'[t].kind = "public_key" =>
                /\ keyAlias # 0 /\ ~keyStoreError
                /\ result'[t].a = [key |-> keyAlias, part |-> "public"]
          /\ (keyAlias # 0 /\ ~invalidated /\ ~keyStoreError) =>
                result'[t].kind = "public_key"
          /\ result'[t].kind = "public_key_failed" =>
                /\ keyStoreError \/ (keyAlias # 0 /\ invalidated)
                /\ createWalletError(result'[t]).code = "WALLET_ERROR"
          /\ UNCHANGED <<keyVars, prefs, wallet_prefs>>]_vars

\* getPublicKey returned the public key of the second key after a nonce was
\* accepted, with the key state and the nonce as they were.
C22_Witness ==
  /\ result[1] = Res("public_key", [key |-> 2, part |-> "public"], 0)
  /\ pc[1] = "done"
  /\ keyAlias = 2
  /\ getLong(prefs) = 1

\* ------------------------------------------------------------------ C23
\* The step is caller t's keyExists call settling.
KeyExistsSettles(t) ==
  /\ Idle(t)
  /\ StepOf(t)
  /\ result'[t].kind \in {"exists", "key_access_failed"}

\* C23: keyExists never fails: it always resolves with a boolean, true exactly
\* when a key exists under the alias and the key store answers the query;
\* when the key store raises it resolves with false; and it changes nothing.
C23_KeyExistsNeverFails ==
  [][\A t \in Threads :
        KeyExistsSettles(t) =>
          /\ result'[t].kind = "exists"
          /\ result'[t].a \in {0, 1} /\ result'[t].b = 0
          /\ result'[t].a = 1 <=> (keyAlias # 0 /\ ~keyStoreError)
          /\ keyStoreError => result'[t].a = 0
          /\ UNCHANGED <<keyVars, prefs, wallet_prefs>>]_vars

\* keyExists answered false although a key is stored under the alias: the
\* key store raised.
C23_Witness ==
  /\ result[1] = Res("exists", 0, 0)
  /\ pc[1] = "done"
  /\ keyAlias # 0
  /\ keyStoreError

C26_PromptBeforeNative ==
  /\ [][\A t \in Threads :
          StepOf(t) =>
            /\ service[t].prompt = "success"
            /\ service[t].pc \in {"invoke", "native"}]_vars
  /\ [][(prefs' # prefs \/ wallet_prefs' # wallet_prefs \/ keyAlias' # keyAlias
            \/ keysGenerated' # keysGenerated \/ signatures' # signatures) =>
          service[1].prompt = "success" /\ service[1].pc \in {"invoke", "native"}]_vars
  /\ [][\A t \in Threads :
          (service[t].pc = "prompt" /\ service'[t].prompt \in {"failure", "error"}) =>
            /\ service'[t].pc = "settled"
            /\ service'[t].outcome.kind \in {"auth_cancelled", "prompt_failed"}
            /\ createWalletError(service'[t].outcome).code = "UNKNOWN_ERROR"
            /\ UNCHANGED nativeVars]_vars
  /\ [](\A t \in Threads :
          service[t].prompt \in {"failure", "error"} =>
            /\ service[t].pc = "settled"
            /\ service[t].outcome.kind \in {"auth_cancelled", "prompt_failed"})

\* After a first transaction was signed, the prompt of a second
\* signTransaction call was cancelled: the call is rejected, the stored nonce
\* and the key are those the first call left, and the native module still
\* holds the first call's result.
C26_Witness ==
  /\ service[1].pc = "settled"
  /\ service[1].op = "signTransaction"
  /\ service[1].request = Arg(Amount100_50, USD, Num(2))
  /\ service[1].prompt = "failure"
  /\ service[1].outcome = Res("auth_cancelled", 0, 0)
  /\ result[1] = Res("signed", 1, 0)
  /\ getLong(prefs) = 0
  /\ keyAlias = 1

\* ------------------------------------------------------------------ C27
\* C27: the string a signing step signs is determined by the amount, the
\* currency and the nonce of the call alone, whatever the stored nonce and the
\* key are: it is the amount as given, '|', the currency as given, '|', and
\* the nonce in base 10 (digits without leading zero that read back as the
\* nonce); the same transaction with any other nonce has another string.
C27_CanonicalDataPureAndNonceSensitive ==
  [][signatures' # signatures =>
       \E t \in Threads : \E s \in signatures' \ signatures :
         LET head == tx[t].amount \o <<"|">> \o tx[t].currency \o <<"|">>
             digits == SubSeq(s.data, Len(head) + 1, Len(s.data))
         IN /\ pc[t] = "sign" /\ StepOf(t)
            /\ signatures' = signatures \cup {s}
            /\ s.data = createCanonicalTransactionData(tx[t].amount, tx[t].currency,
                                                       tx[t].nonce)
            /\ Len(s.data) > Len(head)
            /\ SubSeq(s.data, 1, Len(head)) = head
            /\ AllDigits(digits)
            /\ Len(digits) > 1 => digits[1] # "0"
            /\ DigitsToNat(digits) = tx[t].nonce
            /\ \A n \in (0..(MaxCanonicalNonce + 1)) \ {tx[t].nonce} :
                 createCanonicalTransactionData(tx[t].amount, tx[t].currency, n)
                   # s.data]_vars

\* The same amount and currency were signed with nonce 0 and with nonce
\* MaxCanonicalNonce, under different stored nonces.
C27_Witness ==
  /\ \E s \in signatures : s.data = <<"1", "|", "U", "|", "0">>
  /\ \E s \in signatures :
       /\ s.nonce = MaxCanonicalNonce
       /\ s.data = <<"1", "|", "U", "|">> \o NatToString(MaxCanonicalNonce)

\* ------------------------------------------------------------------ C28
\* The transactions that pass the checks of the bridge and validateAmount.
ValidCanonicalTxs ==
  {[amount |-> a, currency |-> c, nonce |-> n] :
     a \in {x \in CanonicalAmounts : validateAmount(x) = "ok"},
     c \in CanonicalCurrencies,
     n \in 0..(MaxCanonicalNonce + 1)}

\* C28: the string a signing step signs is the canonical string of no valid
\* transaction other than the one signed, also when currencies contain '|'
\* or share characters with amounts; hence a signature made for one
\* transaction is a signature over the data of no other, and the strings
\* signed in one run are pairwise different.
C28_CanonicalDataInjective ==
  /\ [][signatures' # signatures =>
          \E t \in Threads : \E s \in signatures' \ signatures :
            /\ pc[t] = "sign" /\ StepOf(t)
            /\ validateAmount(tx[t].amount) = "ok"
            /\ tx[t] \in ValidCanonicalTxs
            /\ \A m \in ValidCanonicalTxs \ {tx[t]} :
                 createCanonicalTransactionData(m.amount, m.currency, m.nonce)
                   # s.data]_vars
  /\ [](\A s1, s2 \in signatures : s1 # s2 => s1.data # s2.data)

\* Two transactions whose strings differ in one place only were signed:
\* amount 1, currency U|1, nonce 0 and amount 1, currency U, nonce
\* MaxCanonicalNonce.
C28_Witness ==
  /\ \E s \in signatures : s.data = <<"1", "|", "U", "|", "1", "|", "0">>
  /\ \E s \in signatures :
       s.data = <<"1", "|", "U", "|">> \o NatToString(MaxCanonicalNonce)
  /\ result[1].kind = "signed"

\* ------------------------------------------------------------------ C29
\* C29: the backend accepts at most one submission per nonce between two
\* clearProcessedNonces calls: the accepted nonces are pairwise different and
\* are exactly the processed ones, and a submission that resumes when its
\* nonce is already processed, whether it was submitted after the accepted
\* one or was pending together with it, is answered with a failure (the
\* replay error when the transaction is well formed) and adds nothing.
C29_AtMostOneAcceptedPerNonce ==
  /\ [](/\ \A i, j \in DOMAIN acceptedNonces :
             i # j => acceptedNonces[i] # acceptedNonces[j]
        /\ Range(acceptedNonces) = processedNonces)
  /\ [][\A i \in pending \ pending' :
          LET request == responses[i].request
          IN request.transaction.nonce \in processedNonces =>
               /\ responses'[i].status = "failure"
               /\ validateTransaction(request, {}) = "ok" =>
                    responses'[i].error =
                      "Nonce has already been used (replay attack detected)"
               /\ UNCHANGED <<processedNonces, acceptedNonces>>]_vars

\* Two submissions with nonce 0 were pending together; the one submitted
\* second resumed first and was accepted, the other was rejected as a replay.
C29_Witness ==
  /\ Len(responses) >= 2
  /\ responses[1].request.transaction.nonce = Num(0)
  /\ responses[2].request.transaction.nonce = Num(0)
  /\ responses[2].status = "success"
  /\ responses[1].status = "failure"
  /\ responses[1].error = "Nonce has already been used (replay attack detected)"
  /\ Num(0) \in processedNonces

\* ------------------------------------------------------------------ C30
\* The signature of the request is an ECDSA signature over the canonical
\* data of the request's transaction, made with the key whose public half
\* the request carries.
SignatureVerifies(request) ==
  /\ request.signature.form = "ecdsa"
  /\ request.publicKey.form = "key"
  /\ request.signature.key = request.publicKey.key
  /\ request.transaction.nonce.kind = "num"
  /\ request.signature.data =
       request.transaction.amount \o <<"|">> \o request.transaction.currency
         \o <<"|">> \o LongToString(toLong(request.transaction.nonce.halves))

\* C30 as stated: submitTransaction accepts a request only if its signature
\* is a signature over the canonical data of the submitted transaction under
\* the submitted public key.
C30_AcceptedOnlyIfSignatureVerifies ==
  \A i \in DOMAIN responses :
    responses[i].status = "success" => SignatureVerifies(responses[i].request)

\* ------------------------------------------------------------------ C32
\* C32: signTransaction reports the first failing step in the order
\* validation, nonce check, key access.  A call whose transaction is
\* structurally invalid and whose nonce is not above the stored one ends at
\* once with a validation error and writes nothing; a call that takes the
\* nonce step with a nonce not above the stored one ends there with the
\* nonce-too-low error, whether or not a key exists, without reaching the
\* key manager; and a key error is only reported by a call that has passed
\* the nonce step.
C32_FirstFailingStepReported ==
  /\ [][\A t \in Threads : \A m \in TransactionArgs :
          ( /\ SignTransaction(t, m.amount, m.currency, m.nonce)
            /\ StructurallyInvalid(m)
            /\ m.nonce.kind = "num" /\ toLong(m.nonce.halves) <= getLong(prefs) ) =>
            /\ pc'[t] = "done"
            /\ result'[t].kind \in ValidationErrors
            /\ UNCHANGED <<prefs, wallet_prefs, accepted>>]_vars
  /\ [][\A t \in Threads :
          (pc[t] = "check" /\ StepOf(t) /\ tx[t].nonce <= getLong(prefs)) =>
            /\ pc'[t] = "done"
            /\ result'[t].kind = "nonce_too_low"
            /\ ~keyUsed'[t]
            /\ UNCHANGED <<prefs, wallet_prefs, accepted>>]_vars
  /\ [](\A t \in Threads :
          /\ (InSign(t) /\ result[t].kind \in KeyErrors) => committed[t]
          /\ result[t].kind \in ValidationErrors \cup {"nonce_too_low"} =>
               ~keyUsed[t] /\ ~committed[t])

\* With no key ever generated and nonce 0 stored, a valid transaction with
\* nonce 0 failed with the nonce error, not the key error.
C32_Witness ==
  /\ keysGenerated = 0 /\ keyAlias = 0
  /\ getLong(prefs) = 0
  /\ result[1] = Res("nonce_too_low", 0, 0) /\ InSign(1)
  /\ ~keyUsed[1]

\* ------------------------------------------------------------------ C33
\* The step belongs to caller t's generateKeyPair call.
GenerateKeyPairStep(t) ==
  /\ StepOf(t)
  /\ \/ pc[t] = "generate"
     \/ Idle(t) /\ pc'[t] = "generate"
     \/ Idle(t) /\ result'[t].kind = "key_gen_failed"

\* C33: no step of generateKeyPair, successful or failed, changes the stored
\* nonce, the preference file or the list of accepted nonces; and a nonce
\* that was accepted before is rejected at the nonce step whichever key is
\* stored by then.
C33_GenerateLeavesLedger ==
  /\ [][\A t \in Threads :
          GenerateKeyPairStep(t) => UNCHANGED <<prefs, wallet_prefs, accepted>>]_vars
  /\ [][\A t \in Threads :
          (pc[t] = "check" /\ StepOf(t) /\ tx[t].nonce \in Range(accepted)) =>
            /\ result'[t].kind = "nonce_too_low"
            /\ UNCHANGED <<prefs, wallet_prefs, accepted>>]_vars

\* Nonce 0 was signed with the first key; the second key has been generated,
\* the stored nonce is still 0, and a call with nonce 0 was rejected.
C33_Witness ==
  \E t, u \in Threads :
    /\ \E s \in signatures : s.key = 1 /\ s.nonce = 0
    /\ result[u].kind = "generated" /\ keyAlias = 2
    /\ getLong(prefs) = 0
    /\ result[t] = Res("nonce_too_low", 0, 0)

\* ------------------------------------------------------------------ C38
\* C38: the stored nonce is never below -1 and every nonce written is at
\* least 0, in memory and in the file; a signTransaction call with a negative
\* nonce that gets past the prompt is rejected by the bridge with
\* INVALID_INPUT, and from its start to its end the stored nonce, the file
\* and the list of accepted nonces stay as they were.
C38_NonceNeverNegative ==
  /\ [](/\ getLong(prefs) >= -1 /\ getLong(wallet_prefs) >= -1
        /\ prefs # <<>> => prefs[1] >= 0
        /\ wallet_prefs # <<>> => wallet_prefs[1] >= 0
        /\ \A i \in DOMAIN accepted : accepted[i] >= 0)
  /\ [](\A t \in Threads :
          ( /\ service[t].pc = "settled" /\ service[t].prompt = "success"
            /\ service[t].request.nonce.kind = "num"
            /\ service[t].request.nonce.halves < 0 ) =>
            /\ service[t].outcome.kind = "invalid_input"
            /\ createWalletError(service[t].outcome).code = "INVALID_INPUT")
  /\ [][\A t \in Threads :
          ( /\ service[t].pc \in {"prompt", "invoke", "native"}
            /\ service[t].request.nonce.kind = "num"
            /\ service[t].request.nonce.halves < 0 ) =>
            UNCHANGED <<prefs, wallet_prefs, accepted>>]_vars

\* After nonce 0 was accepted, a signTransaction call with nonce -1 passed
\* the prompt and was rejected by the bridge; the stored nonce is still 0.
C38_Witness ==
  /\ service[1].pc = "settled"
  /\ service[1].request = Arg(Amount100_50, USD, Num(-2))
  /\ service[1].prompt = "success"
  /\ service[1].outcome = Res("invalid_input", 0, 0)
  /\ prefs = <<0>> /\ wallet_prefs = <<0>>

\* ------------------------------------------------------------------ C39
\* C39: a submission that is answered with a failure leaves processedNonces
\* as it was; processedNonces grows only by the nonce of a submission that
\* passed validateTransaction and is answered with success; and a well-formed
\* submission is accepted whenever its nonce is not in processedNonces, also
\* when an earlier submission with that nonce was rejected.
C39_RejectionLeavesProcessedNonces ==
  /\ [][\A i \in pending \ pending' :
          LET request == responses[i].request
          IN /\ responses'[i].status = "failure" => processedNonces' = processedNonces
             /\ responses'[i].status = "success" =>
                  /\ validateTransaction(request, processedNonces) = "ok"
                  /\ processedNonces' = processedNonces \cup {request.transaction.nonce}
             /\ ( /\ validateTransaction(request, {}) = "ok"
                  /\ request.transaction.nonce \notin processedNonces ) =>
                  responses'[i].status = "success"]_vars
  /\ [][processedNonces' \subseteq processedNonces
          \/ \E i \in pending \ pending' : responses'[i].status = "success"]_vars

\* The first submission with nonce 0 was rejected for its missing signature
\* while nonce 0 was unprocessed; a later submission with nonce 0 was
\* accepted.
C39_Witness ==
  /\ Len(responses) >= 2
  /\ responses[1].request.transaction.nonce = Num(0)
  /\ responses[1].status = "failure"
  /\ responses[1].error = "Signature is required"
  /\ \E i \in 2..Len(responses) :
       /\ responses[i].request.transaction.nonce = Num(0)
       /\ responses[i].status = "success"
  /\ acceptedNonces = <<Num(0)>>

\* ------------------------------------------------------------------ C34
\* C34: in every reachable state getNextNonce is greater than the stored
\* nonce and is a nonce the check of validateAndSaveNonce lets through, and
\* some nonce can still be accepted.
C34_NextNonceAlwaysAcceptable ==
  /\ getNextNonce > getLastNonce
  /\ ~NonceRejected(getNextNonce, getLastNonce)
  /\ \E n \in 0..LONG_MAX : ~NonceRejected(n, getLastNonce)

\* ------------------------------------------------------------------ C35
\* C35: when a key exists, nothing is loading, amount and currency are not
\* empty and the nonce on the screen is the value getNextNonce returns,
\* pressing Sign & Send calls walletService.signTransaction with the
\* transaction on the screen.
C35_SignAndSendCallsSignTransaction ==
  [][( /\ HandleSignAndSend
       /\ app.keyExists
       /\ ~app.loading
       /\ app.amount # <<>>
       /\ app.currency # <<>>
       /\ app.nonce = floor(Num(2 * toDouble(getNextNonce))) ) =>
       /\ service'[1].op = "signTransaction"
       /\ service'[1].request = Transaction
       /\ service'[1].pc \in {"prompt", "settled"}
       /\ app'.handler = "handleSignAndSend"]_vars

\* ------------------------------------------------------------------ C36
\* C36: when handleSignAndSend has finished, with a success or with a
\* failure, the nonce on the screen is greater than the stored nonce.
C36_ScreenNonceAboveLedgerAfterSend ==
  ( /\ app.handler = "none"
    /\ app.status \in {"Transaction successful!", "Transaction failed",
                        "Failed to sign/send transaction"} ) =>
    app.nonce.halves > 2 * getLastNonce

\* ------------------------------------------------------------------ C31
\* C31: when Sign & Send has failed because the key is invalidated, the
\* Generate Key Pair button is on the screen and enabled.
C31_GenerateOfferedAfterInvalidation ==
  ( /\ app.handler = "none"
    /\ app.status = "Failed to sign/send transaction"
    /\ service[1].op = "signTransaction"
    /\ service[1].outcome.kind = "key_invalidated" ) =>
    GenerateKeyButton

\* ------------------------------------------------------------------ C37
\* C37: with WalletApp as the only client of the backend, every nonce in
\* processedNonces is at most the stored nonce.
C37_ProcessedNoncesCommittedFirst ==
  \A n \in processedNonces : n.kind = "num" /\ n.halves <= 2 * getLastNonce

\* handleSignAndSend has run to its end with a transaction the backend
\* accepted.
C37_Witness ==
  /\ app.handler = "none"
  /\ app.status = "Transaction successful!"
  /\ processedNonces = {Num(4)}
  /\ getLastNonce = 2

====
